---- MODULE Spec2Model ----
(***************************************************************************)
(* Bus, Memory, sound-latch, service-queue and peripheral model of the     *)
(* tek4404 emulator core (src/src/bus.rs, mem.rs, sound.rs, cpu.rs,        *)
(* service.rs, scsi.rs, duart.rs, acia.rs, main.rs).                       *)
(*                                                                         *)
(* The specifications:                                                     *)
(*   SpecMem    one Memory device called directly through its IoDevice     *)
(*              methods, with a Bus that only supplies map_rom (the way    *)
(*              mem.rs exercises it);                                      *)
(*   Spec       the global Bus of Bus::new() behind the m68k_* entry       *)
(*              points;                                                    *)
(*   SpecQueue  the ServiceQueue under schedule() and take();              *)
(*   SpecScsi   the SCSI controller behind the Bus, with the main loop     *)
(*              that drains the service queue;                             *)
(*   SpecIo     the DUART and the ACIA behind the Bus as main() attaches   *)
(*              them, with the keyboard and the network as their inputs.   *)
(***************************************************************************)
EXTENDS Integers, Sequences, FiniteSets, Bags, TLC

VARIABLES
    map_rom,    \* Bus.map_rom
    attached,   \* the Option<..> fields of Bus that are Some
    mem,        \* backing store (Memory.mem) of every memory device of the Bus
    unit,       \* SpecMem: the Memory device under direct call
    halted,     \* a panic has ended the emulation
    sound_written, \* history: a write has reached the sound device
    last,       \* the last call made: its arguments, its result, its traps
    scsi,       \* the Scsi struct
    duart,      \* the Duart struct
    acia,       \* the Acia struct with the AciaState it shares
    queue,      \* QUEUE: the requests in the ServiceQueue's BinaryHeap
    now,        \* Instant::now(), in milliseconds
    irq,        \* the interrupt level set_irq has asserted to the CPU core
    pc,         \* main loop: "cpu" in cpu.execute, "drain" in the drain loop
    hist,       \* history of the SCSI commands written, for the claims
    net,        \* the tasks of the ACIA server and the sockets they serve
    next_task   \* main loop: the Option<ServiceRequest> the drain loop took

vars ==
    <<map_rom, attached, mem, unit, halted, sound_written, last,
      scsi, duart, acia, queue, now, irq, pc, hist, net, next_task>>

(* the state outside the Bus and its memories *)
iovars ==
    <<scsi, duart, acia, queue, now, irq, pc, hist, net, next_task>>

----------------------------------------------------------------------------
(* bus.rs: the fixed address map *)

ROM_START == \h740000
ROM_END == \h74ffff
ROM_SIZE == \h8000

RAM_START == 0
RAM_END == \h1fffff
RAM_SIZE == \h200000

DEBUG_RAM_START == \h760000
DEBUG_RAM_END == \h76ffff
DEBUG_RAM_SIZE == \h1000

SOUND_START == \h788000
SOUND_END == \h788fff

ACIA_START == \h78c000
ACIA_END == \h78c007

VIDEO_START == \h782000
VIDEO_END == \h785fff

VRAM_START == \h600000
VRAM_END == \h61ffff
VRAM_SIZE == \h20000

DUART_START == \h7b4000
DUART_END == \h7b5fff

DIAG_START == \h7b0000
DIAG_END == \h7b1fff
DIAG_SIZE == \h2000

FPU_START == \h78a000
FPU_END == \h78bfff

MMU_START == \h780000
MMU_END == \h7800ff

PT_START == \h800000
PT_END == \hffffff

SCSI_START == \h7bc000
SCSI_END == \h7bffff

MOUSE_START == \h7b6000
MOUSE_END == \h7b7fff

TIMER_START == \h7b8000
TIMER_END == \h7b9fff

CAL_START == \h7ba000
CAL_END == \h7bbfff

----------------------------------------------------------------------------
(* Results.  Result<T, BusError> is a record; a panic (an index or slice   *)
(* out of the bounds of Memory.mem) is the outcome "Panic".                *)

Ok(v) == [tag |-> "Ok", val |-> v]
Err(e) == [tag |-> e, val |-> 0]
Panic == [tag |-> "Panic", val |-> 0]

BusError == {"Access", "Alignment", "ReadOnly"}

Widths == {8, 16, 32}

----------------------------------------------------------------------------
(* Memory.mem: a Vec<u8> of `size` bytes, all 0 at construction.  It is    *)
(* kept as the function from the offsets that hold a non-zero byte to that *)
(* byte, so that equal vectors are equal values.                           *)

Zeroed == [x \in {} |-> 0]

Peek(m, o) == IF o \in DOMAIN m THEN m[o] ELSE 0

Poke(m, o, b) ==
    IF b = 0
    THEN [x \in (DOMAIN m) \ {o} |-> m[x]]
    ELSE [x \in (DOMAIN m) \cup {o} |-> IF x = o THEN b ELSE m[x]]

(* byteorder::BigEndian on a slice that starts at offset o *)
BigEndian_read_u16(m, o) == Peek(m, o) * 256 + Peek(m, o + 1)

BigEndian_read_u32(m, o) ==
    Peek(m, o) * 16777216 + Peek(m, o + 1) * 65536
        + Peek(m, o + 2) * 256 + Peek(m, o + 3)

BigEndian_write_u16(m, o, v) ==
    Poke(Poke(m, o, (v \div 256) % 256), o + 1, v % 256)

(* mutant: least significant byte first *)
LittleEndian_write_u32(m, o, v) ==
    Poke(Poke(Poke(Poke(m, o, v % 256),
                   o + 1, (v \div 256) % 256),
              o + 2, (v \div 65536) % 256),
         o + 3, (v \div 16777216) % 256)

BigEndian_write_u32(m, o, v) ==
    Poke(Poke(Poke(Poke(m, o, (v \div 16777216) % 256),
                   o + 1, (v \div 65536) % 256),
              o + 2, (v \div 256) % 256),
         o + 3, v % 256)

----------------------------------------------------------------------------
(* mem.rs: Memory.  d is the struct without its vector: read_only,         *)
(* start_address, end_address, size; m is the vector; mr is bus.map_rom.   *)

Memory_new(start_address, end_address, size, read_only) ==
    [read_only |-> read_only, start_address |-> start_address,
     end_address |-> end_address, size |-> size]

range_contains(d, address) ==
    d.start_address <= address /\ address <= d.end_address

(* mutant: the offset in the window is not wrapped to the backing size *)
get_offset_nowrap(d, mr, address) ==
    IF d.read_only /\ mr
    THEN [tag |-> "Ok", val |-> address % d.size]
    ELSE IF range_contains(d, address)
         THEN [tag |-> "Ok", val |-> address - d.start_address]
         ELSE [tag |-> "Access", val |-> 0]

get_offset(d, mr, address) ==
    IF d.read_only /\ mr
    THEN Ok(address % d.size)
    ELSE IF range_contains(d, address)
         THEN Ok((address - d.start_address) % d.size)
         ELSE Err("Access")

(* self.mem[offset] and &self.mem[offset..=offset + n] panic when          *)
(* offset + n is not an index of the vector                                *)
SliceInBounds(d, offset, n) == offset + n < d.size

Memory_read_8(d, m, mr, address) ==
    LET offset == get_offset(d, mr, address)
    IN  IF offset.tag # "Ok" THEN offset
        ELSE IF ~SliceInBounds(d, offset.val, 0) THEN Panic
        ELSE Ok(Peek(m, offset.val))

Memory_read_16(d, m, mr, address) ==
    LET offset == get_offset(d, mr, address)
    IN  IF offset.tag # "Ok" THEN offset
        ELSE IF offset.val % 2 # 0 THEN Err("Alignment")
        ELSE IF ~SliceInBounds(d, offset.val, 1) THEN Panic
        ELSE Ok(BigEndian_read_u16(m, offset.val))

Memory_read_32(d, m, mr, address) ==
    LET offset == get_offset(d, mr, address)
    IN  IF offset.tag # "Ok" THEN offset
        ELSE IF offset.val % 2 # 0 THEN Err("Alignment")
        ELSE IF ~SliceInBounds(d, offset.val, 3) THEN Panic
        ELSE Ok(BigEndian_read_u32(m, offset.val))

(* a write gives the result and the vector after the call *)
Wr(res, m) == [res |-> res, mem |-> m]

(* mutant: the read_only test is left out *)
Memory_write_8_unchecked(d, m, mr, address, value) ==
    LET offset == get_offset(d, mr, address)
    IN  IF offset.tag # "Ok" THEN Wr(offset, m)
        ELSE IF ~SliceInBounds(d, offset.val, 0) THEN Wr(Panic, m)
        ELSE Wr(Ok(0), Poke(m, offset.val, value))

Memory_write_8(d, m, mr, address, value) ==
    LET offset == get_offset(d, mr, address)
    IN  IF offset.tag # "Ok" THEN Wr(offset, m)
        ELSE IF d.read_only THEN Wr(Err("ReadOnly"), m)
        ELSE IF ~SliceInBounds(d, offset.val, 0) THEN Wr(Panic, m)
        ELSE Wr(Ok(0), Poke(m, offset.val, value))

Memory_write_16(d, m, mr, address, value) ==
    LET offset == get_offset(d, mr, address)
    IN  IF offset.tag # "Ok" THEN Wr(offset, m)
        ELSE IF offset.val % 2 # 0 THEN Wr(Err("Alignment"), m)
        ELSE IF d.read_only THEN Wr(Err("ReadOnly"), m)
        ELSE IF ~SliceInBounds(d, offset.val, 1) THEN Wr(Panic, m)
        ELSE Wr(Ok(0), BigEndian_write_u16(m, offset.val, value))

(* mutant: the alignment test is left out *)
Memory_write_32_unaligned(d, m, mr, address, value) ==
    LET offset == get_offset(d, mr, address)
    IN  IF offset.tag # "Ok" THEN Wr(offset, m)
        ELSE IF d.read_only THEN Wr(Err("ReadOnly"), m)
        ELSE IF ~SliceInBounds(d, offset.val, 3) THEN Wr(Panic, m)
        ELSE Wr(Ok(0), BigEndian_write_u32(m, offset.val, value))

Memory_write_32(d, m, mr, address, value) ==
    LET offset == get_offset(d, mr, address)
    IN  IF offset.tag # "Ok" THEN Wr(offset, m)
        ELSE IF offset.val % 2 # 0 THEN Wr(Err("Alignment"), m)
        ELSE IF d.read_only THEN Wr(Err("ReadOnly"), m)
        ELSE IF ~SliceInBounds(d, offset.val, 3) THEN Wr(Panic, m)
        ELSE Wr(Ok(0), BigEndian_write_u32(m, offset.val, value))

Memory_read(w, d, m, mr, address) ==
    CASE w = 8 -> Memory_read_8(d, m, mr, address)
      [] w = 16 -> Memory_read_16(d, m, mr, address)
      [] w = 32 -> Memory_read_32(d, m, mr, address)

Memory_write(w, d, m, mr, address, value) ==
    CASE w = 8 -> Memory_write_8(d, m, mr, address, value)
      [] w = 16 -> Memory_write_16(d, m, mr, address, value)
      [] w = 32 -> Memory_write_32(d, m, mr, address, value)

----------------------------------------------------------------------------
(* The operators &, | and ! of Rust on u8 values.                          *)

RECURSIVE BitAnd(_, _)
BitAnd(a, b) ==
    IF a = 0 \/ b = 0 THEN 0
    ELSE (a % 2) * (b % 2) + 2 * BitAnd(a \div 2, b \div 2)

BitOr(a, b) == a + b - BitAnd(a, b)

(* a & !b *)
BitClear(a, b) == a - BitAnd(a, b)

----------------------------------------------------------------------------
(* service.rs: ServiceRequest and ServiceQueue.  The BinaryHeap is the bag *)
(* of the requests pushed and not popped; an Instant is a number of        *)
(* milliseconds.                                                           *)

ServiceRequest(key, when) == [some |-> TRUE, key |-> key, when |-> when]

(* Option<ServiceRequest>::None *)
None == [some |-> FALSE, key |-> "None", when |-> 0]

(* Instant::cmp *)
Instant_cmp(a, b) ==
    IF a < b THEN "Less" ELSE IF a = b THEN "Equal" ELSE "Greater"

(* mutant: the natural order of the deadlines, which makes a max-heap *)
ServiceRequest_cmp_natural(self, other) == Instant_cmp(self.when, other.when)

(* impl Ord for ServiceRequest *)
ServiceRequest_cmp(self, other) == Instant_cmp(other.when, self.when)

ServiceQueue_new == EmptyBag

(* BinaryHeap::peek: the greatest request in the order of Ord, if any *)
BinaryHeap_peek(q) ==
    IF q = EmptyBag THEN None
    ELSE CHOOSE r \in BagToSet(q) :
           \A o \in BagToSet(q) : ServiceRequest_cmp(r, o) # "Less"

(* BinaryHeap::pop: the heap without one copy of its greatest request *)
BinaryHeap_pop(q) ==
    IF q = EmptyBag THEN q ELSE q (-) SetToBag({BinaryHeap_peek(q)})

(* ServiceQueue::schedule, called at the instant t *)
ServiceQueue_schedule(q, key, delay, t) ==
    q (+) SetToBag({ServiceRequest(key, t + delay)})

(* ServiceQueue::take, called at the instant t: what it returns and the    *)
(* heap afterwards                                                         *)
ServiceQueue_take(q, t) ==
    LET srq == BinaryHeap_peek(q)
    IN  IF srq.some /\ t > srq.when
        THEN [ret |-> srq, queue |-> BinaryHeap_pop(q)]
        ELSE [ret |-> None, queue |-> q]

----------------------------------------------------------------------------
(* scsi.rs: the SCSI controller.                                           *)

HOST_ID == 7
SCSI_INT == 3

AUX_IO == \h08
AUX_CD == \h10
AUX_MSG == \h20
AUX_DF == \h80

INT_FC == \h01
INT_BUS == \h02

(* enum RegAddr *)
RegAddr ==
    [Address |-> \h7bc000, Data1 |-> \h7be000, Command |-> \h7be002,
     Control |-> \h7be004, DestId |-> \h7be006, AuxStatus |-> \h7be008,
     Id |-> \h7be00a, Interrupt |-> \h7be00c, SourceId |-> \h7be00e,
     Data2 |-> \h7be0010, DiagStatus |-> \h7be012, Xfer2 |-> \h7be018,
     Xfer1 |-> \h7be01a, Xfer0 |-> \h7be01c]

(* enum Command *)
Command ==
    [ChipReset |-> 0, Disconnect |-> 1, Paused |-> 2, SetAtn |-> 3,
     MessageAccepted |-> 4, ChipDisable |-> 5,
     SelectWithAtn |-> 8, SelectWithoutAtn |-> 9, Reselect |-> 10,
     Diagnostic |-> 11, RxCmd |-> 12, RxData |-> 13, RxMessageOut |-> 14,
     RxUnspInfoOut |-> 15, TxStatus |-> 16, TxData |-> 17,
     TxMessageOut |-> 18, TxUnspInfoIn |-> 19, TransferInfo |-> 20,
     TransferPad |-> 21]

(* Command::from_u8 is Some: n is the discriminant of a command *)
Command_from_u8(n) == \E c \in DOMAIN Command : Command[c] = n

(* the delays of the schedule! calls, in milliseconds *)
SelectDelay == 250
TransferInfoDelay == 100

(* Scsi::new *)
Scsi_new ==
    [address |-> 0, address_msb |-> FALSE, data1 |-> 0, command |-> 0,
     control |-> 0, dest_id |-> 0, aux_stat |-> 0, id |-> HOST_ID,
     interrupt |-> 0, source_id |-> 0, data2 |-> 0, diag_status |-> 0,
     xfer |-> 0, cmd_ptr |-> 0, controller_state |-> "Disconnected",
     scsi_cmd |-> [i \in 0 .. 15 |-> 0], atn |-> FALSE,
     devices |-> [i \in 0 .. 7 |-> "Unselected"]]

(* what a method of Scsi leaves: the struct, the delays of the requests it *)
(* scheduled and the levels it gave to set_irq, in the order of the calls  *)
ScsiEffect(s, sched, irqs) == [scsi |-> s, sched |-> sched, irqs |-> irqs]

(* mutant: the registers get the values of Scsi::new and the per-device    *)
(* states are kept                                                         *)
Scsi_reset_as_new(s) == [Scsi_new EXCEPT !.devices = s.devices]

(* Scsi::reset *)
Scsi_reset(s) ==
    [address |-> 0, address_msb |-> FALSE, data1 |-> 0, command |-> 0,
     control |-> 0, dest_id |-> 0, aux_stat |-> \h02, id |-> HOST_ID,
     interrupt |-> 0, source_id |-> \h07, data2 |-> 0, diag_status |-> \h80,
     xfer |-> 0, cmd_ptr |-> 0, controller_state |-> "Disconnected",
     scsi_cmd |-> [i \in 0 .. 15 |-> 0], atn |-> FALSE,
     devices |-> [i \in 0 .. 7 |-> "Unselected"]]

(* mutant: the target is indexed by the host's own id register *)
Scsi_select_host(s, atn) ==
    ScsiEffect([s EXCEPT !.controller_state = "Initiator",
                         !.atn = atn,
                         !.devices[BitAnd(s.id, \h7)] = "Selected",
                         !.interrupt = INT_FC,
                         !.aux_stat = AUX_CD,
                         !.source_id = BitOr(\h80, s.dest_id)],
               <<SelectDelay>>, <<SCSI_INT>>)

(* Scsi::select *)
Scsi_select(s, atn) ==
    ScsiEffect([s EXCEPT !.controller_state = "Initiator",
                         !.atn = atn,
                         !.devices[BitAnd(s.dest_id, \h7)] = "Selected",
                         !.interrupt = INT_FC,
                         !.aux_stat = AUX_CD,
                         !.source_id = BitOr(\h80, s.dest_id)],
               <<SelectDelay>>, <<SCSI_INT>>)

(* Scsi::transfer_info *)
Scsi_transfer_info(s) ==
    ScsiEffect([s EXCEPT !.cmd_ptr = 0], <<TransferInfoDelay>>, <<>>)

(* mutant: the opcode is taken from the low four bits *)
Scsi_opcode_low4(command) == BitAnd(command, \h0f)

(* the opcode of a command byte: command & 0x1f *)
Scsi_opcode(command) == BitAnd(command, \h1f)

(* mutant: a select command also runs the service routine's first step *)
Scsi_handle_command_eager(s, command) ==
    LET cmd == Scsi_opcode(command)
    IN  IF cmd \in {Command.SelectWithoutAtn, Command.SelectWithAtn}
        THEN LET e == Scsi_select(s, cmd = Command.SelectWithAtn)
             IN  ScsiEffect([e.scsi EXCEPT
                               !.devices[BitAnd(s.dest_id, \h7)] = "Command",
                               !.interrupt = INT_BUS],
                            e.sched, e.irqs)
        ELSE IF cmd = Command.ChipReset THEN ScsiEffect(Scsi_reset(s), <<>>, <<>>)
        ELSE IF cmd = Command.TransferInfo THEN Scsi_transfer_info(s)
        ELSE ScsiEffect(s, <<>>, <<>>)

(* Scsi::handle_command; disconnect and transfer_pad only log; it returns  *)
(* Ok(()) in every case                                                    *)
Scsi_handle_command(s, command) ==
    LET cmd == Scsi_opcode(command)
    IN  IF Command_from_u8(cmd)
        THEN CASE cmd = Command.ChipReset -> ScsiEffect(Scsi_reset(s), <<>>, <<>>)
               [] cmd = Command.Disconnect -> ScsiEffect(s, <<>>, <<>>)
               [] cmd = Command.SelectWithoutAtn -> Scsi_select(s, FALSE)
               [] cmd = Command.SelectWithAtn -> Scsi_select(s, TRUE)
               [] cmd = Command.TransferInfo -> Scsi_transfer_info(s)
               [] cmd = Command.TransferPad -> ScsiEffect(s, <<>>, <<>>)
               [] OTHER -> ScsiEffect(s, <<>>, <<>>)
        ELSE ScsiEffect(s, <<>>, <<>>)

(* what a read of a device leaves: the result and the struct *)
ScsiRead(res, s) == [res |-> res, scsi |-> s]

(* Scsi::read_8 *)
Scsi_read_8(s, address) ==
    CASE address = RegAddr.Data1 ->
           ScsiRead(Ok(s.data1), [s EXCEPT !.aux_stat = BitClear(@, AUX_DF)])
      [] address = RegAddr.Command -> ScsiRead(Ok(s.command), s)
      [] address = RegAddr.Control -> ScsiRead(Ok(s.control), s)
      [] address = RegAddr.DestId -> ScsiRead(Ok(s.dest_id), s)
      [] address = RegAddr.AuxStatus -> ScsiRead(Ok(s.aux_stat), s)
      [] address = RegAddr.Id -> ScsiRead(Ok(s.id), s)
      [] address = RegAddr.Interrupt -> ScsiRead(Ok(s.interrupt), s)
      [] address = RegAddr.SourceId -> ScsiRead(Ok(s.source_id), s)
      [] address = RegAddr.Data2 -> ScsiRead(Ok(s.data2), s)
      [] address = RegAddr.DiagStatus -> ScsiRead(Ok(s.diag_status), s)
      [] address = RegAddr.Xfer2 -> ScsiRead(Ok((s.xfer \div 65536) % 256), s)
      [] address = RegAddr.Xfer1 -> ScsiRead(Ok((s.xfer \div 256) % 256), s)
      [] address = RegAddr.Xfer0 -> ScsiRead(Ok(s.xfer % 256), s)
      [] OTHER -> ScsiRead(Ok(0), s)

(* what a write leaves: the result with the effect *)
ScsiWrite(res, e) ==
    [res |-> res, scsi |-> e.scsi, sched |-> e.sched, irqs |-> e.irqs]

(* Scsi::write_8; scsi_cmd[cmd_ptr] panics once cmd_ptr has reached 16 *)
Scsi_write_8(s, address, value) ==
    CASE address = RegAddr.Address ->
           ScsiWrite(Ok(0), ScsiEffect(
             IF s.address_msb
             THEN [s EXCEPT !.address = (@ % 256) + value * 256,
                            !.address_msb = FALSE]
             ELSE [s EXCEPT !.address = (@ \div 256) * 256 + value,
                            !.address_msb = TRUE],
             <<>>, <<>>))
      [] address = RegAddr.Data1 ->
           IF s.cmd_ptr > 15
           THEN ScsiWrite(Panic, ScsiEffect(s, <<>>, <<>>))
           ELSE ScsiWrite(Ok(0), ScsiEffect(
                  [s EXCEPT !.scsi_cmd[s.cmd_ptr] = value,
                            !.cmd_ptr = @ + 1], <<>>, <<>>))
      [] address = RegAddr.Command ->
           ScsiWrite(Ok(0),
                     Scsi_handle_command([s EXCEPT !.cmd_ptr = 0], value))
      [] address = RegAddr.Control ->
           ScsiWrite(Ok(0), ScsiEffect([s EXCEPT !.control = value],
                                       <<>>, <<>>))
      [] address = RegAddr.DestId ->
           ScsiWrite(Ok(0), ScsiEffect([s EXCEPT !.dest_id = value],
                                       <<>>, <<>>))
      [] address = RegAddr.Id -> ScsiWrite(Ok(0), ScsiEffect(s, <<>>, <<>>))
      [] address = RegAddr.Xfer2 ->
           ScsiWrite(Ok(0), ScsiEffect(
             [s EXCEPT !.xfer = (@ % 65536) + value * 65536], <<>>, <<>>))
      [] address = RegAddr.Xfer1 ->
           ScsiWrite(Ok(0), ScsiEffect(
             [s EXCEPT !.xfer = (@ \div 65536) * 65536 + value * 256
                                  + (@ % 256)], <<>>, <<>>))
      [] address = RegAddr.Xfer0 ->
           ScsiWrite(Ok(0), ScsiEffect(
             [s EXCEPT !.xfer = (@ \div 256) * 256 + value], <<>>, <<>>))
      [] OTHER -> ScsiWrite(Ok(0), ScsiEffect(s, <<>>, <<>>))

(* mutant: the Command arm ends without set_irq, as the DataOut arm does *)
Scsi_service_quiet(s) ==
    LET id == BitAnd(s.dest_id, \h7)
        cur_state == s.devices[id]
    IN  CASE cur_state = "Selected" ->
               ScsiEffect([s EXCEPT !.interrupt = INT_BUS,
                                    !.aux_stat = AUX_CD,
                                    !.devices[id] = "Command"],
                          <<>>, <<SCSI_INT>>)
          [] cur_state = "Command" ->
               ScsiEffect(
                 [s EXCEPT !.data1 = 0,
                           !.interrupt = BitOr(INT_BUS, INT_FC),
                           !.aux_stat =
                             IF BitAnd(s.aux_stat,
                                       BitOr(AUX_MSG, BitOr(AUX_CD, AUX_IO)))
                                  = BitOr(AUX_CD, AUX_IO)
                             THEN BitOr(AUX_DF, AUX_IO)
                             ELSE BitOr(AUX_DF, BitOr(AUX_CD, AUX_IO))],
                 <<>>, <<>>)
          [] cur_state = "DataOut" ->
               ScsiEffect([s EXCEPT !.interrupt = BitOr(INT_BUS, INT_FC),
                                    !.aux_stat = AUX_DF],
                          <<>>, <<>>)
          [] OTHER -> ScsiEffect(s, <<>>, <<>>)

(* mutant: the Command arm moves the device on to DataOut, as its log line *)
(* says                                                                    *)
Scsi_service_data_out(s) ==
    LET id == BitAnd(s.dest_id, \h7)
        cur_state == s.devices[id]
    IN  CASE cur_state = "Selected" ->
               ScsiEffect([s EXCEPT !.interrupt = INT_BUS,
                                    !.aux_stat = AUX_CD,
                                    !.devices[id] = "Command"],
                          <<>>, <<SCSI_INT>>)
          [] cur_state = "Command" ->
               ScsiEffect(
                 [s EXCEPT !.data1 = 0,
                           !.interrupt = BitOr(INT_BUS, INT_FC),
                           !.devices[id] = "DataOut",
                           !.aux_stat =
                             IF BitAnd(s.aux_stat,
                                       BitOr(AUX_MSG, BitOr(AUX_CD, AUX_IO)))
                                  = BitOr(AUX_CD, AUX_IO)
                             THEN BitOr(AUX_DF, AUX_IO)
                             ELSE BitOr(AUX_DF, BitOr(AUX_CD, AUX_IO))],
                 <<>>, <<SCSI_INT>>)
          [] cur_state = "DataOut" ->
               ScsiEffect([s EXCEPT !.interrupt = BitOr(INT_BUS, INT_FC),
                                    !.aux_stat = AUX_DF],
                          <<>>, <<>>)
          [] OTHER -> ScsiEffect(s, <<>>, <<>>)

(* Scsi::service *)
Scsi_service(s) ==
    LET id == BitAnd(s.dest_id, \h7)
        cur_state == s.devices[id]
    IN  CASE cur_state = "Selected" ->
               ScsiEffect([s EXCEPT !.interrupt = INT_BUS,
                                    !.aux_stat = AUX_CD,
                                    !.devices[id] = "Command"],
                          <<>>, <<SCSI_INT>>)
          [] cur_state = "Command" ->
               ScsiEffect(
                 [s EXCEPT !.data1 = 0,
                           !.interrupt = BitOr(INT_BUS, INT_FC),
                           !.aux_stat =
                             IF BitAnd(s.aux_stat,
                                       BitOr(AUX_MSG, BitOr(AUX_CD, AUX_IO)))
                                  = BitOr(AUX_CD, AUX_IO)
                             THEN BitOr(AUX_DF, AUX_IO)
                             ELSE BitOr(AUX_DF, BitOr(AUX_CD, AUX_IO))],
                 <<>>, <<SCSI_INT>>)
          [] cur_state = "DataOut" ->
               ScsiEffect([s EXCEPT !.interrupt = BitOr(INT_BUS, INT_FC),
                                    !.aux_stat = AUX_DF],
                          <<>>, <<>>)
          [] OTHER -> ScsiEffect(s, <<>>, <<>>)

----------------------------------------------------------------------------
(* duart.rs: the DUART.  Port A is the keyboard, port B the serial line.   *)

DELAY_RATES_A ==
    <<160000000, 72727272, 59259260, 40000000, 26666668, 13333334, 6666667,
      7619047, 3333333, 1666666, 1111111, 833333, 208333>>

DELAY_RATES_B ==
    <<106666672, 72727272, 59259260, 53333336, 26666668, 13333334, 6666667,
      4000000, 3333333, 1666666, 4444444, 833333, 416666>>

PORT_A == 0
PORT_B == 1

MR12A == \h7b4000
CSRA == \h7b4002
CRA == \h7b4004
THRA == \h7b4006
IPCR_ACR == \h7b4008
ISR_MASK == \h7b400a
MR12B == \h7b4010
CSRB == \h7b4012
CRB == \h7b4014
THRB == \h7b4016
IP_OPCR == \h7b401a
OPBITS_SET == \h7b401c
OPBITS_RESET == \h7b401e

CNF_ETX == \h01
CNF_ERX == \h02

STS_RXR == \h01
STS_TXR == \h04
STS_TXE == \h08
STS_OER == \h10
STS_PER == \h20
STS_FER == \h40

CMD_ERX == \h01
CMD_DRX == \h02
CMD_ETX == \h04
CMD_DTX == \h08

ISTS_TAI == \h01
ISTS_RAI == \h02
ISTS_TBI == \h10
ISTS_RBI == \h20
ISTS_IPC == \h80

KEYBOARD_INT == \h04
TX_INT == \h10
RX_INT == \h20

(* Port::new; char_delay in nanoseconds *)
Port_new ==
    [mode |-> [i \in 0 .. 1 |-> 0], stat |-> 0, conf |-> 0, rx_data |-> 0,
     tx_data |-> 0, mode_ptr |-> 0, rx_queue |-> <<>>, tx_queue |-> <<>>,
     char_delay |-> 1000000]

(* Duart::new *)
Duart_new ==
    [ports |-> [p \in {PORT_A, PORT_B} |-> Port_new], acr |-> 0,
     ipcr |-> \h40, inprt |-> \h10, outprt |-> 0, istat |-> 0, imr |-> 0,
     ivec |-> 0]

(* map_keycode, on the names of the Keycode variants *)
map_keycode(k) ==
    CASE k = "LShift" -> \h01
      [] k = "RShift" -> \h02
      [] k = "Return" -> \h05
      [] k = "Backspace" -> \h06
      [] k = "Tab" -> \h07
      [] k = "Escape" -> \h0a
      [] k = "Space" -> \h0b
      [] k = "Quote" -> \h0c
      [] k = "Comma" -> \h0d
      [] k = "Minus" -> \h0e
      [] k = "Period" -> \h0f
      [] k = "Slash" -> \h10
      [] k = "Num0" -> \h11
      [] k = "Num1" -> \h12
      [] k = "Num2" -> \h13
      [] k = "Num3" -> \h14
      [] k = "Num4" -> \h15
      [] k = "Num5" -> \h16
      [] k = "Num6" -> \h17
      [] k = "Num7" -> \h18
      [] k = "Num8" -> \h19
      [] k = "Num9" -> \h1a
      [] k = "Semicolon" -> \h1b
      [] k = "Equals" -> \h1c
      [] k = "A" -> \h1d
      [] k = "B" -> \h1e
      [] k = "C" -> \h1f
      [] k = "D" -> \h20
      [] k = "E" -> \h21
      [] k = "F" -> \h22
      [] k = "G" -> \h23
      [] k = "H" -> \h24
      [] k = "I" -> \h25
      [] k = "J" -> \h26
      [] k = "K" -> \h27
      [] k = "L" -> \h28
      [] k = "M" -> \h29
      [] k = "N" -> \h2a
      [] k = "O" -> \h2b
      [] k = "P" -> \h2c
      [] k = "Q" -> \h2d
      [] k = "R" -> \h2e
      [] k = "S" -> \h2f
      [] k = "T" -> \h30
      [] k = "U" -> \h31
      [] k = "V" -> \h32
      [] k = "W" -> \h33
      [] k = "X" -> \h34
      [] k = "Y" -> \h35
      [] k = "Z" -> \h36
      [] k = "LeftBracket" -> \h37
      [] k = "Backslash" -> \h38
      [] k = "RightBracket" -> \h39
      [] k = "Delete" -> \h3b
      [] k = "KpEnter" -> \h3c
      [] k = "KpComma" -> \h3d
      [] k = "KpMinus" -> \h3e
      [] k = "KpPeriod" -> \h3f
      [] k = "Kp0" -> \h40
      [] k = "Kp1" -> \h41
      [] k = "Kp2" -> \h42
      [] k = "Kp3" -> \h43
      [] k = "Kp4" -> \h44
      [] k = "Kp5" -> \h45
      [] k = "Kp6" -> \h46
      [] k = "Kp7" -> \h47
      [] k = "Kp8" -> \h48
      [] k = "Kp9" -> \h49
      [] OTHER -> \h03

(* mutant: the scan code is queued whether the receiver is enabled or not *)
Duart_key_unchecked(d, c) ==
    [d EXCEPT !.ports[PORT_A].stat = BitOr(@, STS_RXR),
              !.istat = BitOr(@, ISTS_RAI),
              !.ivec = BitOr(@, RX_INT),
              !.ports[PORT_A].rx_queue = Append(@, c)]

(* the body key_down and key_up share, c being the code queued *)
Duart_key(d, c) ==
    IF BitAnd(d.ports[PORT_A].conf, CNF_ERX) # 0
    THEN [d EXCEPT !.ports[PORT_A].stat = BitOr(@, STS_RXR),
                   !.istat = BitOr(@, ISTS_RAI),
                   !.ivec = BitOr(@, RX_INT),
                   !.ports[PORT_A].rx_queue = Append(@, c)]
    ELSE d

(* Duart::key_down *)
Duart_key_down(d, k) == Duart_key(d, map_keycode(k))

(* Duart::key_up *)
Duart_key_up(d, k) == Duart_key(d, BitOr(map_keycode(k), \h80))

(* handle_command: "Enable or disable transmitter" *)
Duart_command_tx(d, cmd, port) ==
    IF BitAnd(cmd, CMD_DTX) # 0
    THEN [d EXCEPT
            !.ports[port].conf = BitClear(@, CNF_ETX),
            !.ports[port].stat = BitClear(BitClear(@, STS_TXR), STS_TXE),
            !.ivec = IF port = PORT_A THEN BitClear(@, TX_INT) ELSE @,
            !.istat = IF port = PORT_A THEN BitClear(@, ISTS_TAI) ELSE @]
    ELSE IF BitAnd(cmd, CMD_ETX) # 0
    THEN [d EXCEPT
            !.ports[port].conf = BitOr(@, CNF_ETX),
            !.ports[port].stat = BitOr(BitOr(@, STS_TXR), STS_TXE),
            !.istat = IF port = PORT_A THEN BitOr(@, ISTS_TAI) ELSE @,
            !.ivec = IF port = PORT_A THEN BitOr(@, TX_INT) ELSE @]
    ELSE d

(* handle_command: "Enable or disable receiver" *)
Duart_command_rx(d, cmd, port) ==
    IF BitAnd(cmd, CMD_DRX) # 0
    THEN [d EXCEPT
            !.ports[port].conf = BitClear(@, CNF_ERX),
            !.ports[port].stat = BitClear(@, STS_RXR),
            !.ivec = IF port = PORT_A THEN BitClear(@, RX_INT)
                     ELSE BitClear(@, KEYBOARD_INT),
            !.istat = IF port = PORT_A THEN BitClear(@, ISTS_RAI)
                      ELSE BitClear(@, ISTS_RBI)]
    ELSE IF BitAnd(cmd, CMD_ERX) # 0
    THEN [d EXCEPT !.ports[port].conf = BitOr(@, CNF_ERX),
                   !.ports[port].stat = BitOr(@, STS_RXR)]
    ELSE d

(* handle_command: "Extra commands", match (cmd >> 4) & 7 *)
Duart_command_extra(d, cmd, port) ==
    LET x == (cmd \div 16) % 8
    IN  CASE x = 1 -> [d EXCEPT !.ports[port].mode_ptr = 0]
          [] x = 2 -> [d EXCEPT !.ports[port].stat = BitOr(@, STS_RXR),
                                !.ports[port].conf = BitOr(@, CNF_ERX)]
          [] x = 3 -> [d EXCEPT
                         !.ports[port].stat = BitOr(BitOr(@, STS_TXR), STS_TXE),
                         !.ports[port].conf = BitClear(@, CNF_ETX)]
          [] x = 4 -> [d EXCEPT
                         !.ports[port].stat =
                           BitClear(@, BitOr(STS_FER, BitOr(STS_PER, STS_OER)))]
          [] OTHER -> d

(* mutant: the command acts on the other port *)
Duart_handle_command_swapped(d, cmd, port) ==
    IF cmd = 0 THEN d
    ELSE Duart_command_extra(
           Duart_command_rx(Duart_command_tx(d, cmd, 1 - port), cmd, 1 - port),
           cmd, 1 - port)

(* Duart::handle_command *)
Duart_handle_command(d, cmd, port) ==
    IF cmd = 0 THEN d
    ELSE Duart_command_extra(
           Duart_command_rx(Duart_command_tx(d, cmd, port), cmd, port),
           cmd, port)

DuartRes(res, d) == [res |-> res, duart |-> d]

(* Duart::read_8 *)
Duart_read_8(d, address) ==
    CASE address = MR12A ->
           DuartRes(Ok(d.ports[PORT_A].mode[d.ports[PORT_A].mode_ptr]),
                    [d EXCEPT !.ports[PORT_A].mode_ptr = (@ + 1) % 2])
      [] address = CSRA -> DuartRes(Ok(d.ports[PORT_A].stat), d)
      [] address = THRA ->
           LET ctx == d.ports[PORT_A]
               popped == ctx.rx_queue # <<>>
               rx_data == IF popped THEN ctx.rx_queue[Len(ctx.rx_queue)]
                          ELSE ctx.rx_data
               rest == IF popped
                       THEN SubSeq(ctx.rx_queue, 1, Len(ctx.rx_queue) - 1)
                       ELSE ctx.rx_queue
               empty == rest = <<>>
           IN  DuartRes(Ok(rx_data),
                 [d EXCEPT
                    !.ports[PORT_A].rx_data = rx_data,
                    !.ports[PORT_A].rx_queue = rest,
                    !.ports[PORT_A].stat =
                       IF empty THEN BitClear(@, STS_RXR) ELSE @,
                    !.istat = IF empty THEN BitClear(@, ISTS_RAI) ELSE @,
                    !.ivec = IF empty THEN BitClear(@, RX_INT) ELSE @])
      [] address = IPCR_ACR ->
           DuartRes(Ok(d.ipcr),
                    [d EXCEPT !.ipcr = BitClear(@, \h0f), !.ivec = 0,
                              !.istat = BitClear(@, ISTS_IPC)])
      [] address = ISR_MASK -> DuartRes(Ok(d.istat), d)
      [] address = MR12B ->
           DuartRes(Ok(d.ports[PORT_B].mode[d.ports[PORT_B].mode_ptr]),
                    [d EXCEPT !.ports[PORT_B].mode_ptr = (@ + 1) % 2])
      [] address = CSRB -> DuartRes(Ok(d.ports[PORT_B].stat), d)
      [] address = THRB ->
           DuartRes(Ok(d.ports[PORT_B].rx_data),
                    [d EXCEPT !.ports[PORT_B].stat = BitClear(@, STS_RXR),
                              !.istat = BitClear(@, ISTS_RBI),
                              !.ivec = BitClear(@, KEYBOARD_INT)])
      [] address = IP_OPCR -> DuartRes(Ok(d.inprt), d)
      [] OTHER -> DuartRes(Ok(0), d)

(* Duart::read_16 *)
Duart_read_16(d, address) ==
    IF address = MR12A
    THEN DuartRes(Ok(BitOr(d.ports[PORT_A].mode[1] * 256,
                           d.ports[PORT_A].mode[0])), d)
    ELSE Duart_read_8(d, address)

(* Duart::write_8; DELAY_RATES_A[baud_bits] panics for baud_bits above 12 *)
Duart_write_8(d, address, value) ==
    CASE address = MR12A ->
           DuartRes(Ok(0),
             [d EXCEPT !.ports[PORT_A].mode[d.ports[PORT_A].mode_ptr] = value,
                       !.ports[PORT_A].mode_ptr = (@ + 1) % 2])
      [] address = CSRA ->
           LET baud_bits == (value \div 16) % 16
           IN  IF baud_bits > 12 THEN DuartRes(Panic, d)
               ELSE DuartRes(Ok(0),
                      [d EXCEPT !.ports[PORT_A].char_delay =
                         IF BitAnd(d.acr, \h80) = 0
                         THEN DELAY_RATES_A[baud_bits + 1]
                         ELSE DELAY_RATES_B[baud_bits + 1]])
      [] address = CRA -> DuartRes(Ok(0), Duart_handle_command(d, value, PORT_A))
      [] address = THRA ->
           DuartRes(Ok(0),
             [d EXCEPT !.ports[PORT_A].tx_data = value,
                       !.ports[PORT_A].stat =
                          BitClear(@, BitOr(STS_TXE, STS_TXR)),
                       !.istat = BitClear(@, ISTS_TAI),
                       !.ivec = BitClear(@, TX_INT)])
      [] address = IPCR_ACR -> DuartRes(Ok(0), [d EXCEPT !.acr = value])
      [] address = ISR_MASK -> DuartRes(Ok(0), [d EXCEPT !.imr = value])
      [] address = MR12B ->
           DuartRes(Ok(0),
             [d EXCEPT !.ports[PORT_B].mode[d.ports[PORT_B].mode_ptr] = value,
                       !.ports[PORT_B].mode_ptr = (@ + 1) % 2])
      [] address = CRB -> DuartRes(Ok(0), Duart_handle_command(d, value, PORT_B))
      [] address = THRB ->
           IF BitAnd(value, \h08) # 0
           THEN DuartRes(Ok(0),
                  [d EXCEPT !.ports[PORT_B].tx_data = value,
                            !.ports[PORT_B].stat =
                               BitClear(@, BitOr(STS_TXE, STS_TXR)),
                            !.istat = BitClear(@, ISTS_TBI)])
           ELSE DuartRes(Ok(0), d)
      [] address = IP_OPCR -> DuartRes(Ok(0), d)
      [] address = OPBITS_SET ->
           DuartRes(Ok(0), [d EXCEPT !.outprt = BitOr(@, value)])
      [] address = OPBITS_RESET ->
           DuartRes(Ok(0),
             IF BitAnd(value, \h8) # 0
             THEN [d EXCEPT !.outprt = BitClear(@, value),
                            !.ports[PORT_A].rx_data = \hf0,
                            !.ports[PORT_A].stat = BitOr(@, STS_RXR)]
             ELSE [d EXCEPT !.outprt = BitClear(@, value)])
      [] OTHER -> DuartRes(Ok(0), d)

----------------------------------------------------------------------------
(* acia.rs: the debug ACIA and the state it shares with the Telnet server. *)

DATA_REG == \h78c000
STAT_REG == \h78c002
CMD_REG == \h78c004
CTRL_REG == \h78c006

(* the capacity of ArrayDeque<[u8; 8], Saturating> *)
AciaQueueCapacity == 8

(* ArrayDeque::push_back with the Saturating behaviour: a full queue keeps *)
(* its content and the element is dropped                                  *)
ArrayDeque_push_back(q, c) ==
    IF Len(q) < AciaQueueCapacity THEN Append(q, c) ELSE q

(* AciaState::new; waker is 0 for None and, for Some(waker), the number of  *)
(* the connection whose task the waker wakes                               *)
AciaState_new ==
    [ts |-> "Data", connected |-> FALSE, tx_data |-> <<>>, rx_data |-> <<>>,
     waker |-> 0]

(* Acia::new *)
Acia_new ==
    [state |-> AciaState_new, data |-> 0, control |-> 0, command |-> 0,
     status |-> 0]

AciaRes(res, a) == [res |-> res, acia |-> a]

(* mutant: the status register is read as stored *)
Acia_read_8_stored(a, address) ==
    CASE address = DATA_REG ->
           IF a.state.rx_data # <<>>
           THEN AciaRes(Ok(Head(a.state.rx_data)),
                        [a EXCEPT !.data = Head(a.state.rx_data),
                                  !.state.rx_data = Tail(@)])
           ELSE AciaRes(Ok(a.data), a)
      [] address = STAT_REG -> AciaRes(Ok(a.status), a)
      [] address = CMD_REG -> AciaRes(Ok(a.command), a)
      [] address = CTRL_REG -> AciaRes(Ok(a.control), a)
      [] OTHER -> AciaRes(Ok(0), a)

(* Acia::read_8 *)
Acia_read_8(a, address) ==
    CASE address = DATA_REG ->
           IF a.state.rx_data # <<>>
           THEN AciaRes(Ok(Head(a.state.rx_data)),
                        [a EXCEPT !.data = Head(a.state.rx_data),
                                  !.state.rx_data = Tail(@)])
           ELSE AciaRes(Ok(a.data), a)
      [] address = STAT_REG ->
           AciaRes(Ok(BitOr(BitOr(BitOr(a.status,
                       IF a.state.rx_data # <<>> THEN \h8 ELSE 0),
                       IF a.state.tx_data = <<>> THEN \h10 ELSE 0),
                       IF ~a.state.connected THEN \h60 ELSE 0)), a)
      [] address = CMD_REG -> AciaRes(Ok(a.command), a)
      [] address = CTRL_REG -> AciaRes(Ok(a.control), a)
      [] OTHER -> AciaRes(Ok(0), a)

(* Acia::write_8; handle_command clears status *)
Acia_write_8(a, address, data) ==
    CASE address = DATA_REG ->
           AciaRes(Ok(0),
             [a EXCEPT !.data = data,
                       !.state.tx_data = ArrayDeque_push_back(@, data)])
      [] address = STAT_REG ->
           AciaRes(Ok(0), [a EXCEPT !.state.tx_data = <<>>,
                                    !.state.rx_data = <<>>,
                                    !.data = 0])
      [] address = CMD_REG ->
           AciaRes(Ok(0), [a EXCEPT !.command = data, !.status = 0])
      [] address = CTRL_REG -> AciaRes(Ok(0), [a EXCEPT !.control = data])
      [] OTHER -> AciaRes(Ok(0), a)

(* AciaServer::process, the socket-to-device loop: the step made for one   *)
(* byte n read from the socket                                             *)
AciaServer_input(st, n) ==
    CASE st.ts = "Data" ->
           IF n = 255 THEN [st EXCEPT !.ts = "OptionName"]
           ELSE [st EXCEPT !.rx_data = ArrayDeque_push_back(@, n)]
      [] st.ts = "OptionName" -> [st EXCEPT !.ts = "OptionValue"]
      [] st.ts = "OptionValue" -> [st EXCEPT !.ts = "Data"]

(* the socket-to-device loop over the bytes of one read *)
RECURSIVE AciaServer_inputs(_, _)
AciaServer_inputs(st, bytes) ==
    IF bytes = <<>> THEN st
    ELSE AciaServer_inputs(AciaServer_input(st, Head(bytes)), Tail(bytes))

(* the Telnet options sent to a client when its session starts *)
HANDSHAKE == <<255, 251, 1, 255, 251, 3, 255, 252, 34>>

(* the largest number of connections the clients open *)
MaxConn == 2

(* the largest number of bytes a client sends on its connection *)
MaxIn == 1

(* the largest number of bytes the CPU writes to the data register *)
MaxTx == 1

Conns == 1 .. MaxConn

(* one write_all on a socket: the message written and, for one byte of the *)
(* transmit queue, the byte                                                *)
Written(msg, val) == [msg |-> msg, val |-> val]

(* a connection no client has opened yet.  st is the place of the          *)
(* connection in the server: "none", "pending" (waiting in the listener),  *)
(* "spawned" (tokio::spawn(process) called), "run" (process in its         *)
(* tokio::join!), "done", "rejected", "panicked".  sock is the client's    *)
(* end: "open", "eof" (closed for sending), "reset".  inq is the bytes     *)
(* sent and not read yet, got the bytes the session has read, out the      *)
(* writes made on the socket.  rd and wr                                   *)
(* are the two futures of the join!: "ready", "pending" or "done"; poll is *)
(* the futures the task still polls in this turn, woken a wake-up of the   *)
(* task that has not been served, skip the future the next turn starts    *)
(* with                                                                    *)
Conn_new ==
    [st |-> "none", sock |-> "open", inq |-> <<>>, got |-> <<>>,
     rd |-> "ready", wr |-> "ready", poll |-> <<>>, skip |-> 0,
     woken |-> FALSE, out |-> <<>>]

(* run is AciaServer::run: "accept" while it loops, "dead" after a panic;  *)
(* wake is TRUE while Acia::write_8 is between its push_back and its       *)
(* wake_by_ref; written counts the bytes written to the data register;     *)
(* rotate is TRUE for a build whose tokio::join! rotates the future it     *)
(* polls first; lk is, for each activity, the steps of its path it has yet *)
(* to make and the locks it holds                                          *)
Net_new ==
    [run |-> "accept", conn |-> [c \in Conns |-> Conn_new], wake |-> FALSE,
     written |-> 0, rotate |-> FALSE,
     lk |-> [a \in {"cpu", "run", "session1", "session2"} |->
               [todo |-> <<>>, holds |-> {}]]]

(* impl Future for AciaTransmit: poll, in the task of connection c *)
AciaTransmit_poll(st, c) ==
    IF ~st.connected
    THEN [state |-> st, res |-> "Err", val |-> 0]
    ELSE IF st.tx_data # <<>>
    THEN [state |-> [st EXCEPT !.tx_data = Tail(@)], res |-> "Ok",
          val |-> Head(st.tx_data)]
    ELSE [state |-> [st EXCEPT !.waker = c], res |-> "Pending", val |-> 0]

(* Acia::write_8 has pushed the byte and has yet to wake the waker *)
Acia_write_8_pushed(n, w, dev, address) ==
    IF dev = "acia" /\ w = 8 /\ address = DATA_REG
    THEN [n EXCEPT !.wake = TRUE, !.written = @ + 1]
    ELSE n

----------------------------------------------------------------------------
(* The devices of the Bus that are not memories: acia, duart, scsi.  io is *)
(* the record of the three structs.                                        *)

IoDevs == {"acia", "duart", "scsi"}

(* what an access leaves: the result, the three structs, the delays of the *)
(* service requests scheduled and the levels given to set_irq              *)
IoEffect(res, io, sched, irqs) ==
    [res |-> res, io |-> io, sched |-> sched, irqs |-> irqs]

(* the device's read_N; Acia and Scsi implement read_8 only and Duart      *)
(* read_8 and read_16, the other widths are the defaults of IoDevice       *)
Io_read(w, dev, io, addr) ==
    CASE dev = "acia" /\ w = 8 ->
           LET r == Acia_read_8(io.acia, addr)
           IN  IoEffect(r.res, [io EXCEPT !.acia = r.acia], <<>>, <<>>)
      [] dev = "duart" /\ w = 8 ->
           LET r == Duart_read_8(io.duart, addr)
           IN  IoEffect(r.res, [io EXCEPT !.duart = r.duart], <<>>, <<>>)
      [] dev = "duart" /\ w = 16 ->
           LET r == Duart_read_16(io.duart, addr)
           IN  IoEffect(r.res, [io EXCEPT !.duart = r.duart], <<>>, <<>>)
      [] dev = "scsi" /\ w = 8 ->
           LET r == Scsi_read_8(io.scsi, addr)
           IN  IoEffect(r.res, [io EXCEPT !.scsi = r.scsi], <<>>, <<>>)
      [] OTHER -> IoEffect(Ok(0), io, <<>>, <<>>)

(* the device's write_N; the three devices implement write_8 only *)
Io_write(w, dev, io, addr, value) ==
    CASE dev = "acia" /\ w = 8 ->
           LET r == Acia_write_8(io.acia, addr, value)
           IN  IoEffect(r.res, [io EXCEPT !.acia = r.acia], <<>>, <<>>)
      [] dev = "duart" /\ w = 8 ->
           LET r == Duart_write_8(io.duart, addr, value)
           IN  IoEffect(r.res, [io EXCEPT !.duart = r.duart], <<>>, <<>>)
      [] dev = "scsi" /\ w = 8 ->
           LET r == Scsi_write_8(io.scsi, addr, value)
           IN  IoEffect(r.res, [io EXCEPT !.scsi = r.scsi], r.sched, r.irqs)
      [] OTHER -> IoEffect(Ok(0), io, <<>>, <<>>)

(* the three structs as they are *)
IoNow == [acia |-> acia, duart |-> duart, scsi |-> scsi]

(* history: what the claims on reset need to know of the commands written *)
(* to the SCSI command register.  stale holds the requests that were in    *)
(* the queue at the last ChipReset and are still there; stale_taken is     *)
(* true when the request the last drain turn took was one of stale.        *)
NoHist == [stale |-> EmptyBag, stale_taken |-> FALSE]

Hist_write(h, w, dev, addr, value, q) ==
    IF dev = "scsi" /\ w = 8 /\ addr = RegAddr.Command
    THEN IF Scsi_opcode(value) = Command.ChipReset
         THEN [stale |-> q, stale_taken |-> FALSE]
         ELSE [h EXCEPT !.stale_taken = FALSE]
    ELSE h

Hist_take(h, r) ==
    IF BagIn(r, h.stale)
    THEN [h EXCEPT !.stale = @ (-) SetToBag({r}), !.stale_taken = TRUE]
    ELSE [h EXCEPT !.stale_taken = FALSE]

----------------------------------------------------------------------------
(* The calls a specification makes.  last records the call just made.      *)

NoCall ==
    [op |-> "none", width |-> 0, addr |-> 0, value |-> 0, dev |-> "none",
     res |-> Ok(0), returned |-> TRUE, ret |-> 0, traps |-> 0,
     irqs |-> <<>>]

(* the values written, per width (u8, u16, u32) *)
Values(w) ==
    CASE w = 8 -> {\h01}
      [] w = 16 -> {\h0102}
      [] w = 32 -> {\h01020304}

(* boot ROM images, as load() leaves them in Memory.mem.  Every byte of the *)
(* images and of Values is below 0x80, so that a u32 assembled from four   *)
(* of them stays below 2^31.                                               *)
RomImages ==
    { [o \in {0, 1, 2, 3, \h100, \h101, \h102, \h103} |-> \h11 + (o % 16)],
      [o \in {0, 1, \h100, \h7ffe, \h7fff} |-> \h60 + (o % 16)] }

----------------------------------------------------------------------------
(* SpecMem: one Memory device, called directly.                            *)

(* the Memory devices the program constructs (Bus::new, main) *)
MemConfigs ==
    { Memory_new(ROM_START, ROM_END, ROM_SIZE, TRUE),
      Memory_new(RAM_START, RAM_END, RAM_SIZE, FALSE),
      Memory_new(DEBUG_RAM_START, DEBUG_RAM_END, DEBUG_RAM_SIZE, FALSE) }

NoUnit == [d |-> Memory_new(0, 0, 1, FALSE), m |-> Zeroed]

NoMem == [n \in {} |-> Zeroed]

(* addresses tried on device d: both ends of the backing store, the first  *)
(* mirror, both ends of the window and just outside it                     *)
UnitAddrs(d) ==
    LET s == d.start_address
        e == d.end_address
        S == d.size
    IN  {s, s + 1, s + S - 2, s + S, s + S + 1, e, e + 1, \h100}
            \cup (IF s > 0 THEN {s - 1} ELSE {})

InitMem ==
    /\ map_rom \in BOOLEAN
    /\ attached = {}
    /\ mem = NoMem
    /\ \E d \in MemConfigs :
         \E img \in (IF d.read_only THEN RomImages ELSE {Zeroed}) :
           unit = [d |-> d, m |-> img]
    /\ halted = FALSE
    /\ sound_written = FALSE
    /\ last = NoCall
    /\ scsi = Scsi_new
    /\ duart = Duart_new
    /\ acia = Acia_new
    /\ queue = ServiceQueue_new
    /\ now = 0
    /\ irq = 0
    /\ pc = "cpu"
    /\ hist = NoHist
    /\ net = Net_new
    /\ next_task = None

UnitRead(w, a) ==
    /\ ~halted
    /\ LET r == Memory_read(w, unit.d, unit.m, map_rom, a)
       IN  /\ last' = [op |-> "read", width |-> w, addr |-> a, value |-> 0,
                       dev |-> "unit", res |-> r, returned |-> r.tag # "Panic",
                       ret |-> 0, traps |-> 0, irqs |-> <<>>]
           /\ halted' = (r.tag = "Panic")
    /\ UNCHANGED <<map_rom, attached, mem, unit, sound_written>>
    /\ UNCHANGED iovars

UnitWrite(w, a, v) ==
    /\ ~halted
    /\ LET r == Memory_write(w, unit.d, unit.m, map_rom, a, v)
       IN  /\ last' = [op |-> "write", width |-> w, addr |-> a, value |-> v,
                       dev |-> "unit", res |-> r.res,
                       returned |-> r.res.tag # "Panic", ret |-> 0, traps |-> 0,
                       irqs |-> <<>>]
           /\ unit' = [unit EXCEPT !.m = r.mem]
           /\ halted' = (r.res.tag = "Panic")
    /\ UNCHANGED <<map_rom, attached, mem, sound_written>>
    /\ UNCHANGED iovars

NextMem ==
    \/ \E w \in Widths : \E a \in UnitAddrs(unit.d) : UnitRead(w, a)
    \/ \E w \in Widths : \E a \in UnitAddrs(unit.d) :
         \E v \in Values(w) : UnitWrite(w, a, v)

SpecMem == InitMem /\ [][NextMem]_vars

----------------------------------------------------------------------------
(* bus.rs: Bus.  A device is named by the field of Bus that holds it.      *)

MemDevs == {"rom", "ram", "debug_ram", "diag", "video_ram"}

(* devices whose IoDevice methods all return Ok(0) / Ok(()) and change     *)
(* nothing: fpu.rs, timer.rs, mouse.rs (trait defaults), mmu.rs, cal.rs,   *)
(* video.rs                                                                *)
StubDevs == {"fpu", "mmu", "mouse", "timer", "cal", "video"}

(* the Memory struct behind each memory field *)
MemoryOf(dev) ==
    CASE dev = "rom" -> Memory_new(ROM_START, ROM_END, ROM_SIZE, TRUE)
      [] dev = "ram" -> Memory_new(RAM_START, RAM_END, RAM_SIZE, FALSE)
      [] dev = "debug_ram" ->
           Memory_new(DEBUG_RAM_START, DEBUG_RAM_END, DEBUG_RAM_SIZE, FALSE)
      [] dev = "diag" -> Memory_new(DIAG_START, DIAG_END, DIAG_SIZE, FALSE)
      [] dev = "video_ram" ->
           Memory_new(VRAM_START, VRAM_END, VRAM_SIZE, FALSE)

(* Bus::new(): the fields that are Some *)
Bus_new ==
    {"rom", "ram", "debug_ram", "sound", "diag", "fpu", "mmu", "scsi",
     "mouse", "timer", "cal"}

In(addr, lo, hi) == lo <= addr /\ addr <= hi

(* the region of the match in map_device, in the order of its arms; for    *)
(* the low region the field depends on map_rom                             *)
region_of(addr, mr) ==
    CASE In(addr, ROM_START, ROM_END) -> "rom"
      [] In(addr, RAM_START, RAM_END) -> IF mr THEN "rom" ELSE "ram"
      [] In(addr, DEBUG_RAM_START, DEBUG_RAM_END) -> "debug_ram"
      [] In(addr, SOUND_START, SOUND_END) -> "sound"
      [] In(addr, ACIA_START, ACIA_END) -> "acia"
      [] In(addr, VIDEO_START, VIDEO_END) -> "video"
      [] In(addr, VRAM_START, VRAM_END) -> "video_ram"
      [] In(addr, DUART_START, DUART_END) -> "duart"
      [] In(addr, FPU_START, FPU_END) -> "fpu"
      [] In(addr, DIAG_START, DIAG_END) -> "diag"
      [] In(addr, MMU_START, MMU_END) -> "mmu"
      [] In(addr, PT_START, PT_END) -> "mmu"
      [] In(addr, SCSI_START, SCSI_END) -> "scsi"
      [] In(addr, MOUSE_START, MOUSE_END) -> "mouse"
      [] In(addr, TIMER_START, TIMER_END) -> "timer"
      [] In(addr, CAL_START, CAL_END) -> "cal"
      [] OTHER -> "none"

(* mutant: the video arm hands out its device without the None test *)
map_device_video_unchecked(addr, mr, att) ==
    LET f == region_of(addr, mr)
    IN  IF f \in att \/ f = "video" THEN f ELSE "none"

(* map_device: the device, or "none" for Err(BusError::Access) *)
map_device(addr, mr, att) ==
    LET f == region_of(addr, mr)
    IN  IF f \in att THEN f ELSE "none"

(* mutants: the latch is not cleared; the latch is toggled *)
unmap_rom_noop(mr) == mr

unmap_rom_toggle(mr) == ~mr

(* Sound::unmap_rom *)
unmap_rom(mr) == IF mr THEN FALSE ELSE mr

(* the device's read_N, called with the Bus *)
Device_read(w, dev, ms, mr, addr) ==
    CASE dev \in MemDevs -> Memory_read(w, MemoryOf(dev), ms[dev], mr, addr)
      [] dev = "sound" -> Ok(0)
      [] dev \in StubDevs -> Ok(0)
      [] dev \in IoDevs -> Io_read(w, dev, IoNow, addr).res

(* the device's write_N: the result, the vectors and map_rom afterwards *)
Device_write(w, dev, ms, mr, addr, value) ==
    CASE dev \in MemDevs ->
           LET r == Memory_write(w, MemoryOf(dev), ms[dev], mr, addr, value)
           IN  [res |-> r.res, mem |-> [ms EXCEPT ![dev] = r.mem],
                map_rom |-> mr]
      [] dev = "sound" ->
           [res |-> Ok(0), mem |-> ms, map_rom |-> unmap_rom(mr)]
      [] dev \in StubDevs -> [res |-> Ok(0), mem |-> ms, map_rom |-> mr]
      [] dev \in IoDevs ->
           [res |-> Io_write(w, dev, IoNow, addr, value).res, mem |-> ms,
            map_rom |-> mr]

(* Bus::read_8 / read_16 / read_32 *)
Bus_read(w, ms, mr, att, addr) ==
    LET dev == map_device(addr, mr, att)
    IN  IF dev = "none" THEN Err("Access")
        ELSE Device_read(w, dev, ms, mr, addr)

(* Bus::write_8 / write_16 / write_32 *)
Bus_write(w, ms, mr, att, addr, value) ==
    LET dev == map_device(addr, mr, att)
    IN  IF dev = "none"
        THEN [res |-> Err("Access"), mem |-> ms, map_rom |-> mr]
        ELSE Device_write(w, dev, ms, mr, addr, value)

(* the IO devices after Bus::read_N *)
Bus_read_io(w, mr, att, addr) ==
    LET dev == map_device(addr, mr, att)
    IN  IF dev \in IoDevs THEN Io_read(w, dev, IoNow, addr)
        ELSE IoEffect(Ok(0), IoNow, <<>>, <<>>)

(* the IO devices after Bus::write_N, with what the device scheduled and   *)
(* signaled                                                                *)
Bus_write_io(w, mr, att, addr, value) ==
    LET dev == map_device(addr, mr, att)
    IN  IF dev \in IoDevs THEN Io_write(w, dev, IoNow, addr, value)
        ELSE IoEffect(Ok(0), IoNow, <<>>, <<>>)

(* schedule!(ServiceKey::Scsi, delay) for each delay of sched, made at the *)
(* instant t: QUEUE.lock().unwrap().schedule(key, delay)                   *)
schedule(q, sched, t) ==
    IF sched = <<>> THEN q
    ELSE ServiceQueue_schedule(q, "Scsi", sched[1], t)

(* set_irq(level) for each level of irqs: the level asserted afterwards *)
set_irq(cur, irqs) == IF irqs = <<>> THEN cur ELSE irqs[Len(irqs)]

----------------------------------------------------------------------------
(* bus.rs: the entry points the CPU core calls.  traps counts the calls of *)
(* cpu::bus_error() the entry point makes.                                 *)

(* m68k_read_memory_N: match on the result of the Bus read *)
read_traps(r) == IF r.tag \in BusError THEN 1 ELSE 0

read_ret(r) == IF r.tag = "Ok" THEN r.val ELSE 0

(* mutant: ReadOnly raises the bus error like the other two *)
write_traps_all(r) == IF r.tag \in BusError THEN 1 ELSE 0

(* m68k_write_memory_N: match on the result of the Bus write *)
write_traps(r) ==
    IF r.tag = "Ok" THEN 0
    ELSE IF r.tag = "ReadOnly" THEN 0
    ELSE IF r.tag \in BusError THEN 1
    ELSE 0

(* val as u8 / val as u16 / val as u32 of a c_uint *)
Truncate(w, val) ==
    CASE w = 8 -> val % 256
      [] w = 16 -> val % 65536
      [] w = 32 -> val

(* addresses the CPU core presents *)
BusAddrs ==
    {\h000100, \h1ffffe, \h200000, \h740100, \h740101, \h748100,
     \h788000, \h78c000, \h782000, \h600000, \h7b4000, \h800000,
     \h1000000}

(* c_uint values the CPU core presents, per width *)
CpuValues(w) ==
    CASE w = 8 -> {\h0301}
      [] w = 16 -> {\h030102}
      [] w = 32 -> {\h01020304}

Init ==
    /\ map_rom = TRUE
    /\ attached = Bus_new
    /\ \E img \in RomImages :
         mem = [dev \in MemDevs |-> IF dev = "rom" THEN img ELSE Zeroed]
    /\ unit = NoUnit
    /\ halted = FALSE
    /\ sound_written = FALSE
    /\ last = NoCall
    /\ scsi = Scsi_new
    /\ duart = Duart_new
    /\ acia = Acia_new
    /\ queue = ServiceQueue_new
    /\ now = 0
    /\ irq = 0
    /\ pc = "cpu"
    /\ hist = NoHist
    /\ net = Net_new
    /\ next_task = None

m68k_read_memory(w, address) ==
    /\ ~halted
    /\ \E r \in {Bus_read(w, mem, map_rom, attached, address)} :
       \E e \in {Bus_read_io(w, map_rom, attached, address)} :
           /\ last' = [op |-> "read", width |-> w, addr |-> address,
                       value |-> 0,
                       dev |-> map_device(address, map_rom, attached),
                       res |-> r, returned |-> r.tag # "Panic",
                       ret |-> read_ret(r), traps |-> read_traps(r),
                       irqs |-> <<>>]
           /\ halted' = (r.tag = "Panic")
           /\ scsi' = e.io.scsi
           /\ duart' = e.io.duart
           /\ acia' = e.io.acia
    /\ UNCHANGED <<map_rom, attached, mem, unit, sound_written>>
    /\ UNCHANGED <<queue, now, irq, pc, hist, net,
                 next_task>>

(* m68k_read_disassembler_N: the same Bus read, without the bus error *)
m68k_read_disassembler(w, address) ==
    /\ ~halted
    /\ \E r \in {Bus_read(w, mem, map_rom, attached, address)} :
       \E e \in {Bus_read_io(w, map_rom, attached, address)} :
           /\ last' = [op |-> "disasm", width |-> w, addr |-> address,
                       value |-> 0,
                       dev |-> map_device(address, map_rom, attached),
                       res |-> r, returned |-> r.tag # "Panic",
                       ret |-> read_ret(r), traps |-> 0, irqs |-> <<>>]
           /\ halted' = (r.tag = "Panic")
           /\ scsi' = e.io.scsi
           /\ duart' = e.io.duart
           /\ acia' = e.io.acia
    /\ UNCHANGED <<map_rom, attached, mem, unit, sound_written>>
    /\ UNCHANGED <<queue, now, irq, pc, hist, net,
                 next_task>>

m68k_write_memory(w, addr, val) ==
    /\ ~halted
    /\ \E dev \in {map_device(addr, map_rom, attached)} :
       \E r \in {Bus_write(w, mem, map_rom, attached, addr, Truncate(w, val))} :
       \E e \in {Bus_write_io(w, map_rom, attached, addr, Truncate(w, val))} :
           /\ last' = [op |-> "write", width |-> w, addr |-> addr,
                       value |-> val, dev |-> dev,
                       res |-> r.res, returned |-> r.res.tag # "Panic",
                       ret |-> 0, traps |-> write_traps(r.res),
                       irqs |-> e.irqs]
           /\ mem' = r.mem
           /\ map_rom' = r.map_rom
           /\ halted' = (r.res.tag = "Panic")
           /\ scsi' = e.io.scsi
           /\ duart' = e.io.duart
           /\ acia' = e.io.acia
           /\ queue' = schedule(queue, e.sched, now)
           /\ irq' = set_irq(irq, e.irqs)
           /\ hist' = Hist_write(hist, w, dev, addr, Truncate(w, val), queue)
           /\ sound_written' = (sound_written \/ dev = "sound")
           /\ net' = Acia_write_8_pushed(net, w, dev, addr)
    /\ UNCHANGED <<attached, unit, now, pc, next_task>>

(* Bus::set_video_ram and Bus::set_video_controller *)
set_video_ram ==
    /\ ~halted
    /\ attached' = attached \cup {"video_ram"}
    /\ mem' = [mem EXCEPT !["video_ram"] = Zeroed]
    /\ last' = [NoCall EXCEPT !.op = "set", !.dev = "video_ram"]
    /\ UNCHANGED <<map_rom, unit, halted, sound_written>>
    /\ UNCHANGED iovars

set_video_controller ==
    /\ ~halted
    /\ attached' = attached \cup {"video"}
    /\ last' = [NoCall EXCEPT !.op = "set", !.dev = "video"]
    /\ UNCHANGED <<map_rom, mem, unit, halted, sound_written>>
    /\ UNCHANGED iovars

Next ==
    \/ \E w \in Widths : \E a \in BusAddrs : m68k_read_memory(w, a)
    \/ \E w \in Widths : \E a \in BusAddrs :
         \E v \in CpuValues(w) : m68k_write_memory(w, a, v)
    \/ set_video_ram
    \/ set_video_controller

Spec == Init /\ [][Next]_vars

----------------------------------------------------------------------------
(* SpecQueue: the ServiceQueue under schedule() and take().                *)

(* the longest time the clock is followed, in milliseconds *)
MaxNow == 300

(* the steps of the clock, in milliseconds: SpecQueue, SpecScsi *)
TickMs == 50

ScsiTickMs == 150

(* the largest number of requests kept in the queue *)
MaxQueue == 2

(* time passes *)
Tick(ms) ==
    /\ ~halted
    /\ now + ms <= MaxNow
    /\ now' = now + ms
    /\ last' = [NoCall EXCEPT !.op = "tick"]
    /\ UNCHANGED <<map_rom, attached, mem, unit, halted, sound_written>>
    /\ UNCHANGED <<scsi, duart, acia, queue, irq, pc, hist, net,
                 next_task>>

(* QUEUE.schedule(ServiceKey::Scsi, delay) *)
QueueSchedule(delay) ==
    /\ BagCardinality(queue) < MaxQueue
    /\ queue' = ServiceQueue_schedule(queue, "Scsi", delay, now)
    /\ last' = [NoCall EXCEPT !.op = "schedule", !.value = delay]
    /\ UNCHANGED <<map_rom, attached, mem, unit, halted, sound_written>>
    /\ UNCHANGED <<scsi, duart, acia, now, irq, pc, hist, net,
                 next_task>>

(* QUEUE.take(); res is the Option returned *)
QueueTake ==
    /\ \E t \in {ServiceQueue_take(queue, now)} :
           /\ queue' = t.queue
           /\ last' = [NoCall EXCEPT !.op = "take", !.res = t.ret]
    /\ UNCHANGED <<map_rom, attached, mem, unit, halted, sound_written>>
    /\ UNCHANGED <<scsi, duart, acia, now, irq, pc, hist, net,
                 next_task>>

InitQueue ==
    /\ map_rom = TRUE
    /\ attached = {}
    /\ mem = NoMem
    /\ unit = NoUnit
    /\ halted = FALSE
    /\ sound_written = FALSE
    /\ last = NoCall
    /\ scsi = Scsi_new
    /\ duart = Duart_new
    /\ acia = Acia_new
    /\ queue = ServiceQueue_new
    /\ now = 0
    /\ irq = 0
    /\ pc = "cpu"
    /\ hist = NoHist
    /\ net = Net_new
    /\ next_task = None

NextQueue ==
    \/ \E delay \in {SelectDelay, TransferInfoDelay} : QueueSchedule(delay)
    \/ QueueTake
    \/ Tick(TickMs)

SpecQueue == InitQueue /\ [][NextQueue]_vars

----------------------------------------------------------------------------
(* main.rs: the Bus as main() populates it, and the loop that runs the CPU *)
(* and then drains the service queue.                                      *)

(* the boot ROM file loaded *)
BootImage == CHOOSE img \in RomImages : \h7fff \in DOMAIN img

InitMain ==
    /\ map_rom = TRUE
    /\ attached = Bus_new \cup {"acia", "video", "video_ram", "duart"}
    /\ mem = [dev \in MemDevs |-> IF dev = "rom" THEN BootImage ELSE Zeroed]
    /\ unit = NoUnit
    /\ halted = FALSE
    /\ sound_written = FALSE
    /\ last = NoCall
    /\ scsi = Scsi_new
    /\ duart = Duart_new
    /\ acia = Acia_new
    /\ queue = ServiceQueue_new
    /\ now = 0
    /\ irq = 0
    /\ pc = "cpu"
    /\ hist = NoHist
    /\ net = Net_new
    /\ next_task = None

(* the for loop over cpu.execute has ended: the drain loop starts *)
main_executed ==
    /\ ~halted
    /\ pc = "cpu"
    /\ pc' = "drain"
    /\ last' = [NoCall EXCEPT !.op = "executed"]
    /\ UNCHANGED <<map_rom, attached, mem, unit, halted, sound_written>>
    /\ UNCHANGED <<scsi, duart, acia, queue, now, irq, hist, net, next_task>>

(* one turn of the drain loop: take(), then service() of the request       *)
(* taken, or the break that ends the loop                                  *)
main_drain ==
    /\ ~halted
    /\ pc = "drain"
    /\ \E t \in {ServiceQueue_take(queue, now)} :
       \E e \in {Scsi_service(scsi)} :
           IF t.ret.some
           THEN /\ queue' = t.queue
                /\ scsi' = e.scsi
                /\ irq' = set_irq(irq, e.irqs)
                /\ hist' = Hist_take(hist, t.ret)
                /\ pc' = pc
                /\ last' = [NoCall EXCEPT !.op = "service", !.dev = "scsi",
                                         !.value = t.ret.when,
                                         !.irqs = e.irqs]
           ELSE /\ pc' = "cpu"
                /\ last' = [NoCall EXCEPT !.op = "sleep"]
                /\ UNCHANGED <<queue, scsi, irq, hist, net>>
    /\ UNCHANGED <<map_rom, attached, mem, unit, halted, sound_written>>
    /\ UNCHANGED <<duart, acia, now, net, next_task>>

----------------------------------------------------------------------------
(* SpecScsi: the CPU reads and writes the registers of the SCSI            *)
(* controller; the main loop drains the service queue.                     *)

(* the largest number of command bytes written to the data register *)
MaxCmdPtr == 1

(* the registers read *)
ScsiReads == {RegAddr.Interrupt, RegAddr.Data1}

(* the registers written, each with the bytes written to it *)
ScsiWrites ==
    ({RegAddr.Command} \X {\h00, \h09, \h88, \h14, \h50, \h1f})
        \cup ({RegAddr.DestId} \X {\h0b})
        \cup ({RegAddr.Data1} \X {\h12})

NextScsi ==
    \/ /\ pc = "cpu"
       /\ \E a \in ScsiReads : m68k_read_memory(8, a)
    \/ /\ pc = "cpu"
       /\ \E x \in ScsiWrites : m68k_write_memory(8, x[1], x[2])
       /\ BagCardinality(queue') <= MaxQueue
       /\ scsi'.cmd_ptr <= MaxCmdPtr
    \/ main_executed
    \/ main_drain
    \/ Tick(ScsiTickMs)

SpecScsi == InitMain /\ [][NextScsi]_vars

----------------------------------------------------------------------------
(* SpecCmd: the CPU writes command bytes to the SCSI data register, as     *)
(* many as it likes, and ChipReset and TransferInfo commands to the        *)
(* command register.                                                       *)

(* the command byte written to the data register *)
CmdByte == \h12

(* the commands written to the command register *)
CmdCommands == {\h00, \h14}

NextCmd ==
    \/ m68k_write_memory(8, RegAddr.Data1, CmdByte)
    \/ /\ \E v \in CmdCommands : m68k_write_memory(8, RegAddr.Command, v)
       /\ BagCardinality(queue') <= MaxQueue

SpecCmd == InitMain /\ [][NextCmd]_vars

----------------------------------------------------------------------------
(* SpecIo: the DUART and the ACIA behind the Bus; the keyboard events of   *)
(* the display loop and the bytes of the Telnet connection are their       *)
(* inputs.                                                                 *)

(* the largest number of bytes waiting in a receive queue *)
MaxRx == 2

(* main: Event::KeyDown of the display loop *)
key_down(k) ==
    /\ ~halted
    /\ Len(duart.ports[PORT_A].rx_queue) < MaxRx
    /\ duart' = Duart_key_down(duart, k)
    /\ last' = [NoCall EXCEPT !.op = "key_down", !.dev = "duart"]
    /\ UNCHANGED <<map_rom, attached, mem, unit, halted, sound_written>>
    /\ UNCHANGED <<scsi, acia, queue, now, irq, pc, hist, net,
                 next_task>>

(* AciaServer::run accepts a connection while none is open, and            *)
(* AciaServer::process marks the state connected                           *)
AciaServer_accept ==
    /\ ~halted
    /\ ~acia.state.connected
    /\ acia' = [acia EXCEPT !.state.connected = TRUE]
    /\ last' = [NoCall EXCEPT !.op = "accept", !.dev = "acia"]
    /\ UNCHANGED <<map_rom, attached, mem, unit, halted, sound_written>>
    /\ UNCHANGED <<scsi, duart, queue, now, irq, pc, hist, net,
                 next_task>>

(* AciaServer::process: a byte n of the open connection reaches the state *)
AciaServer_receive(n) ==
    /\ ~halted
    /\ acia.state.connected
    /\ Len(acia.state.rx_data) < MaxRx
    /\ acia' = [acia EXCEPT !.state = AciaServer_input(@, n)]
    /\ last' = [NoCall EXCEPT !.op = "receive", !.dev = "acia", !.value = n]
    /\ UNCHANGED <<map_rom, attached, mem, unit, halted, sound_written>>
    /\ UNCHANGED <<scsi, duart, queue, now, irq, pc, hist, net,
                 next_task>>

(* the addresses the disassembler reads *)
DisasmAddrs == {DATA_REG, MR12A, THRA, \h1000000}

(* the registers the CPU reads, each with the width of the read *)
IoReads == {<<8, THRA>>, <<16, MR12A>>, <<16, MR12B>>}

(* the registers the CPU writes, each with the bytes written to it *)
IoWrites ==
    ({CRA} \X {CMD_ETX, CMD_DTX, CMD_ERX})
        \cup ({CRB} \X {CMD_ETX, CMD_DTX})

(* the keys pressed and the bytes received *)
Keys == {"A"}

NetBytes == {\h41}

NextIo ==
    \/ \E w \in Widths : \E a \in DisasmAddrs : m68k_read_disassembler(w, a)
    \/ \E x \in IoReads : m68k_read_memory(x[1], x[2])
    \/ \E x \in IoWrites : m68k_write_memory(8, x[1], x[2])
    \/ \E k \in Keys : key_down(k)
    \/ AciaServer_accept
    \/ \E n \in NetBytes : AciaServer_receive(n)

SpecIo == InitMain /\ [][NextIo]_vars

----------------------------------------------------------------------------
(* SpecKeys: the keyboard.  The display loop hands the key events to the   *)
(* Duart, the CPU enables and disables the receiver of port A and reads    *)
(* its receive holding register.                                           *)

(* the keys pressed and released *)
KeyboardKeys == {"A", "Z"}

(* main: Event::KeyUp of the display loop *)
key_up(k) ==
    /\ ~halted
    /\ Len(duart.ports[PORT_A].rx_queue) < MaxRx
    /\ duart' = Duart_key_up(duart, k)
    /\ last' = [NoCall EXCEPT !.op = "key_up", !.dev = "duart"]
    /\ UNCHANGED <<map_rom, attached, mem, unit, halted, sound_written>>
    /\ UNCHANGED <<scsi, acia, queue, now, irq, pc, hist, net,
                 next_task>>

(* the commands the CPU writes to the command register of port A *)
KeyCommands == {CMD_ERX, CMD_DRX}

NextKeys ==
    \/ \E k \in KeyboardKeys : key_down(k)
    \/ \E k \in KeyboardKeys : key_up(k)
    \/ \E v \in KeyCommands : m68k_write_memory(8, CRA, v)
    \/ m68k_read_memory(8, THRA)

SpecKeys == InitMain /\ [][NextKeys]_vars

----------------------------------------------------------------------------
(* SpecClock: the CPU writes the clock-select register of port A and the   *)
(* auxiliary control register, whose bit 7 selects the table of delays.    *)

(* the bytes written to the clock-select register: every u8 *)
ClockSelects == 0 .. 255

(* the bytes written to the auxiliary control register *)
AuxControls == {\h00, \h80}

NextClock ==
    \/ \E v \in ClockSelects : m68k_write_memory(8, CSRA, v)
    \/ \E v \in AuxControls : m68k_write_memory(8, IPCR_ACR, v)

SpecClock == InitMain /\ [][NextClock]_vars

----------------------------------------------------------------------------
(* SpecNet: the ACIA server.  AciaServer::run accepts the connections of   *)
(* the clients in the main task, AciaServer::process serves each accepted  *)
(* connection in a task of its own, and the CPU reads and writes the       *)
(* registers of the Acia.                                                  *)

(* the bytes the clients send *)
ClientBytes == {\hff, \h41}

(* the first byte the CPU writes to the data register; the next ones       *)
(* follow it                                                               *)
FirstTxByte == \h61

(* the connections that are in the server *)
Served == {"pending", "spawned", "run"}

(* a socket event wakes the task whose read is pending *)
Readable(k) ==
    [k EXCEPT !.woken = @ \/ (k.st = "run" /\ k.rd = "pending")]

(* the task ends when both futures of its join! have; the socket is       *)
(* dropped with it                                                         *)
Joined(k) ==
    IF k.rd = "done" /\ k.wr = "done"
    THEN [Conn_new EXCEPT !.st = "done"]
    ELSE k

(* a step of the server or of a client *)
NetCall == [NoCall EXCEPT !.op = "net", !.dev = "acia"]

(* tokio::join!: the futures polled in one turn, in their order; a build   *)
(* whose join! rotates starts each turn one future later                   *)
join_order(k) ==
    SelectSeq(IF k.skip = 0 THEN <<"rd", "wr">> ELSE <<"wr", "rd">>,
              LAMBDA f : (IF f = "rd" THEN k.rd ELSE k.wr) # "done")

join_polled(k, rotate) ==
    [k EXCEPT !.poll = join_order(k), !.woken = FALSE,
              !.skip = IF rotate THEN 1 - @ ELSE @]

(* a client opens a connection: it waits in the listener *)
Client_connect(c) ==
    /\ ~halted
    /\ net.conn[c].st = "none"
    /\ \A d \in Conns : d < c => net.conn[d].st # "none"
    /\ net' = [net EXCEPT !.conn[c].st = "pending"]
    /\ last' = NetCall
    /\ UNCHANGED <<map_rom, attached, mem, unit, halted, sound_written>>
    /\ UNCHANGED <<scsi, duart, acia, queue, now, irq, pc, hist, next_task>>

(* a client sends the byte n *)
Client_send(c, n) ==
    /\ ~halted
    /\ net.conn[c].st = "run"
    /\ net.conn[c].sock = "open"
    /\ Len(net.conn[c].got) + Len(net.conn[c].inq) < MaxIn
    /\ net' = [net EXCEPT !.conn[c] =
                 Readable([@ EXCEPT !.inq = Append(@, n)])]
    /\ last' = NetCall
    /\ UNCHANGED <<map_rom, attached, mem, unit, halted, sound_written>>
    /\ UNCHANGED <<scsi, duart, acia, queue, now, irq, pc, hist, next_task>>

(* a client closes its end: the server reads what was sent, then 0 bytes *)
Client_close(c) ==
    /\ ~halted
    /\ net.conn[c].st = "run"
    /\ net.conn[c].sock = "open"
    /\ net' = [net EXCEPT !.conn[c] = Readable([@ EXCEPT !.sock = "eof"])]
    /\ last' = NetCall
    /\ UNCHANGED <<map_rom, attached, mem, unit, halted, sound_written>>
    /\ UNCHANGED <<scsi, duart, acia, queue, now, irq, pc, hist, next_task>>

(* a client resets its connection: every read and write of the server on   *)
(* the socket fails                                                        *)
Client_reset(c) ==
    /\ ~halted
    /\ net.conn[c].st \in Served
    /\ net.conn[c].sock = "open"
    /\ net' = [net EXCEPT !.conn[c] =
                 Readable([@ EXCEPT !.sock = "reset", !.inq = <<>>])]
    /\ last' = NetCall
    /\ UNCHANGED <<map_rom, attached, mem, unit, halted, sound_written>>
    /\ UNCHANGED <<scsi, duart, acia, queue, now, irq, pc, hist, next_task>>

(* listener.accept() returns connection c, the first that waits *)
accepted(c) ==
    /\ ~halted
    /\ net.run = "accept"
    /\ net.conn[c].st = "pending"
    /\ \A d \in Conns : d < c => net.conn[d].st # "pending"

(* an expect() of AciaServer::run fails: the panic unwinds the main task,  *)
(* which the CPU loop is part of                                           *)
AciaServer_run_panic(c) ==
    /\ net' = [net EXCEPT !.run = "dead",
                          !.conn[c] = [Conn_new EXCEPT !.st = "panicked"]]
    /\ halted' = TRUE
    /\ last' = NetCall

(* mutant: the rejection ends the session in progress *)
AciaServer_run_reject_clearing(c) ==
    /\ accepted(c)
    /\ acia.state.connected
    /\ net.conn[c].sock # "reset"
    /\ net' = [net EXCEPT !.conn[c].st = "rejected",
                          !.conn[c].out = Append(@, Written("goodbye", 0))]
    /\ acia' = [acia EXCEPT !.state.connected = FALSE]
    /\ last' = NetCall
    /\ UNCHANGED <<map_rom, attached, mem, unit, halted, sound_written>>
    /\ UNCHANGED <<scsi, duart, queue, now, irq, pc, hist, next_task>>

(* AciaServer::run, a turn of the loop that finds the state connected: the *)
(* "Already connected" message, then shutdown()                            *)
AciaServer_run_reject(c) ==
    /\ accepted(c)
    /\ acia.state.connected
    /\ IF net.conn[c].sock = "reset"
       THEN AciaServer_run_panic(c)
       ELSE /\ net' = [net EXCEPT
                         !.conn[c].st = "rejected",
                         !.conn[c].out = Append(@, Written("goodbye", 0))]
            /\ last' = NetCall
            /\ UNCHANGED halted
    /\ UNCHANGED <<map_rom, attached, mem, unit, sound_written>>
    /\ UNCHANGED <<scsi, duart, acia, queue, now, irq, pc, hist, next_task>>

(* AciaServer::run, a turn of the loop that finds the state not connected: *)
(* the welcome message, then tokio::spawn(process)                         *)
AciaServer_run_spawn(c) ==
    /\ accepted(c)
    /\ ~acia.state.connected
    /\ IF net.conn[c].sock = "reset"
       THEN AciaServer_run_panic(c)
       ELSE /\ net' = [net EXCEPT
                         !.conn[c].st = "spawned",
                         !.conn[c].out = Append(@, Written("welcome", 0))]
            /\ last' = NetCall
            /\ UNCHANGED halted
    /\ UNCHANGED <<map_rom, attached, mem, unit, sound_written>>
    /\ UNCHANGED <<scsi, duart, acia, queue, now, irq, pc, hist, next_task>>

AciaServer_run(c) ==
    \/ AciaServer_run_reject(c)
    \/ AciaServer_run_spawn(c)

(* the writes of write_all(&HANDSHAKE) *)
handshake_written ==
    [i \in 1 .. Len(HANDSHAKE) |-> Written("handshake", HANDSHAKE[i])]

(* AciaServer::process up to its join!: the state is marked connected and  *)
(* the handshake written; the unwrap() of a failed write ends the task     *)
AciaServer_process(c) ==
    /\ ~halted
    /\ net.conn[c].st = "spawned"
    /\ acia' = [acia EXCEPT !.state.connected = TRUE]
    /\ IF net.conn[c].sock = "reset"
       THEN /\ net' = [net EXCEPT !.conn[c] =
                         [Conn_new EXCEPT !.st = "panicked"]]
            /\ last' = NetCall
       ELSE /\ net' = [net EXCEPT !.conn[c] =
                         join_polled([@ EXCEPT !.st = "run",
                                               !.out = @ \o handshake_written],
                                     net.rotate)]
            /\ last' = NetCall
    /\ UNCHANGED <<map_rom, attached, mem, unit, halted, sound_written>>
    /\ UNCHANGED <<scsi, duart, queue, now, irq, pc, hist, next_task>>

(* the task of connection c has been woken: its join! polls the futures    *)
(* that have not completed                                                 *)
join_poll(c) ==
    /\ ~halted
    /\ net.conn[c].st = "run"
    /\ net.conn[c].poll = <<>>
    /\ net.conn[c].woken
    /\ net' = [net EXCEPT !.conn[c] = join_polled(@, net.rotate)]
    /\ last' = NetCall
    /\ UNCHANGED <<map_rom, attached, mem, unit, halted, sound_written>>
    /\ UNCHANGED <<scsi, duart, acia, queue, now, irq, pc, hist, next_task>>

(* the socket-to-device loop of process, polled: the bytes read go         *)
(* through the Telnet states one by one; a read of 0 bytes or a failed     *)
(* read marks the state disconnected and ends the loop; with nothing left  *)
(* to read the future is pending                                           *)
AciaServer_process_reader(c) ==
    /\ ~halted
    /\ net.conn[c].st = "run"
    /\ net.conn[c].poll # <<>>
    /\ Head(net.conn[c].poll) = "rd"
    /\ \E k \in {net.conn[c]} :
       \E st \in {AciaServer_inputs(acia.state, k.inq)} :
         IF k.sock = "open"
         THEN /\ acia' = [acia EXCEPT !.state = st]
              /\ net' = [net EXCEPT !.conn[c] =
                           [k EXCEPT !.inq = <<>>, !.got = @ \o k.inq,
                                     !.rd = "pending", !.poll = Tail(@)]]
         ELSE /\ acia' = [acia EXCEPT !.state =
                            [st EXCEPT !.connected = FALSE]]
              /\ net' = [net EXCEPT !.conn[c] =
                           Joined([k EXCEPT !.inq = <<>>, !.got = @ \o k.inq,
                                            !.rd = "done", !.poll = Tail(@)])]
    /\ last' = NetCall
    /\ UNCHANGED <<map_rom, attached, mem, unit, halted, sound_written>>
    /\ UNCHANGED <<scsi, duart, queue, now, irq, pc, hist, next_task>>

(* the device-to-socket loop of process, polled in the task of connection  *)
(* c with the socket k: each byte AciaTransmit yields is written to the    *)
(* socket; a failed write, like the end of the loop, marks the state       *)
(* disconnected; with the queue empty the future is pending                *)
RECURSIVE AciaServer_writer(_, _, _)
AciaServer_writer(st, k, c) ==
    LET p == AciaTransmit_poll(st, c)
    IN  CASE p.res = "Err" ->
               [state |-> [p.state EXCEPT !.connected = FALSE],
                conn |-> [k EXCEPT !.wr = "done"]]
          [] p.res = "Ok" /\ k.sock = "reset" ->
               [state |-> [p.state EXCEPT !.connected = FALSE],
                conn |-> [k EXCEPT !.wr = "done"]]
          [] p.res = "Ok" /\ k.sock # "reset" ->
               AciaServer_writer(
                   p.state,
                   [k EXCEPT !.out = Append(@, Written("data", p.val))], c)
          [] p.res = "Pending" ->
               [state |-> p.state, conn |-> [k EXCEPT !.wr = "pending"]]

AciaServer_process_writer(c) ==
    /\ ~halted
    /\ net.conn[c].st = "run"
    /\ net.conn[c].poll # <<>>
    /\ Head(net.conn[c].poll) = "wr"
    /\ \E r \in {AciaServer_writer(acia.state, net.conn[c], c)} :
         /\ acia' = [acia EXCEPT !.state = r.state]
         /\ net' = [net EXCEPT !.conn[c] =
                      Joined([r.conn EXCEPT !.poll = Tail(@)])]
    /\ last' = NetCall
    /\ UNCHANGED <<map_rom, attached, mem, unit, halted, sound_written>>
    /\ UNCHANGED <<scsi, duart, queue, now, irq, pc, hist, next_task>>

(* Acia::write_8, DATA_REG, its second statement: the waker stored in the  *)
(* state, if there is one, wakes its task                                  *)
Acia_write_8_wake ==
    /\ ~halted
    /\ net.wake
    /\ net' = [net EXCEPT
                 !.wake = FALSE,
                 !.conn = [c \in Conns |->
                             IF c = acia.state.waker /\ @[c].st = "run"
                             THEN [@[c] EXCEPT !.woken = TRUE]
                             ELSE @[c]]]
    /\ last' = NetCall
    /\ UNCHANGED <<map_rom, attached, mem, unit, halted, sound_written>>
    /\ UNCHANGED <<scsi, duart, acia, queue, now, irq, pc, hist, next_task>>

(* main() with either build of tokio::join! *)
InitNet ==
    /\ map_rom = TRUE
    /\ attached = Bus_new \cup {"acia", "video", "video_ram", "duart"}
    /\ mem = [dev \in MemDevs |-> IF dev = "rom" THEN BootImage ELSE Zeroed]
    /\ unit = NoUnit
    /\ halted = FALSE
    /\ sound_written = FALSE
    /\ last = NoCall
    /\ scsi = Scsi_new
    /\ duart = Duart_new
    /\ acia = Acia_new
    /\ queue = ServiceQueue_new
    /\ now = 0
    /\ irq = 0
    /\ pc = "cpu"
    /\ hist = NoHist
    /\ \E r \in BOOLEAN : net = [Net_new EXCEPT !.rotate = r]
    /\ next_task = None

(* the registers of the Acia the CPU reads *)
AciaReads == {STAT_REG}

NextNet ==
    \/ \E c \in Conns : Client_connect(c)
    \/ \E c \in Conns : \E n \in ClientBytes : Client_send(c, n)
    \/ \E c \in Conns : Client_close(c)
    \/ \E c \in Conns : Client_reset(c)
    \/ \E c \in Conns : AciaServer_run(c)
    \/ \E c \in Conns : AciaServer_process(c)
    \/ \E c \in Conns : join_poll(c)
    \/ \E c \in Conns : AciaServer_process_reader(c)
    \/ \E c \in Conns : AciaServer_process_writer(c)
    \/ /\ ~net.wake
       /\ net.written < MaxTx
       /\ m68k_write_memory(8, DATA_REG, FirstTxByte + net.written)
    \/ Acia_write_8_wake
    \/ /\ ~net.wake
       /\ \E a \in AciaReads : m68k_read_memory(8, a)

SpecNet == InitNet /\ [][NextNet]_vars

----------------------------------------------------------------------------
(* SpecAcia: the two queues of the AciaState between the CPU and one       *)
(* session.  The client sends the bytes FirstRxByte, FirstRxByte + 1, ..   *)
(* and the CPU writes FirstTxByte, FirstTxByte + 1, .. to the data         *)
(* register, so that every byte in a queue tells when it was pushed.       *)

(* the largest number of bytes the client sends *)
MaxSent == 9

(* the largest number of bytes the CPU writes to the data register *)
MaxWritten == 9

(* the first byte the client sends; none of its bytes is IAC *)
FirstRxByte == \h41

(* AciaServer::process, the socket-to-device loop: the next byte of the    *)
(* client is read and handed to the state                                  *)
AciaServer_read_byte ==
    /\ ~halted
    /\ acia.state.connected
    /\ Len(net.conn[1].got) < MaxSent
    /\ \E n \in {FirstRxByte + Len(net.conn[1].got)} :
           /\ acia' = [acia EXCEPT !.state = AciaServer_input(@, n)]
           /\ net' = [net EXCEPT !.conn[1].got = Append(@, n)]
           /\ last' = [NoCall EXCEPT !.op = "receive", !.dev = "acia",
                                    !.value = n]
    /\ UNCHANGED <<map_rom, attached, mem, unit, halted, sound_written>>
    /\ UNCHANGED <<scsi, duart, queue, now, irq, pc, hist, next_task>>

(* AciaServer::process, the device-to-socket loop: AciaTransmit is polled  *)
(* and is ready with a byte, which is written to the socket                *)
AciaServer_write_byte ==
    /\ ~halted
    /\ \E p \in {AciaTransmit_poll(acia.state, 1)} :
           /\ p.res = "Ok"
           /\ acia' = [acia EXCEPT !.state = p.state]
           /\ last' = [NoCall EXCEPT !.op = "transmit", !.dev = "acia",
                                    !.value = p.val]
    /\ UNCHANGED <<map_rom, attached, mem, unit, halted, sound_written>>
    /\ UNCHANGED <<scsi, duart, queue, now, irq, pc, hist, net,
                 next_task>>

NextAcia ==
    \/ AciaServer_accept
    \/ AciaServer_read_byte
    \/ AciaServer_write_byte
    \/ m68k_read_memory(8, DATA_REG)
    \/ /\ net.written < MaxWritten
       /\ m68k_write_memory(8, DATA_REG, FirstTxByte + net.written)
    \/ m68k_write_memory(8, STAT_REG, 0)

SpecAcia == InitMain /\ [][NextAcia]_vars

----------------------------------------------------------------------------
(* SpecLock: the locks.  The CPU loop, the accept loop and the sessions    *)
(* are the activities; each runs the locks, unlocks and awaits of one path *)
(* of its code after the other.  An await may never end: a client that     *)
(* stalls its socket is an await that does not.                            *)

Activities == {"cpu", "run", "session1", "session2"}

(* m68k_read_memory_8 and m68k_write_memory_8 on a register of the Acia:   *)
(* the BUS mutex, the lock of the device, the mutex of the AciaState; the  *)
(* debug! of the DATA_REG arms takes the LOGGER mutex                      *)
Bus_locks(path) ==
    CASE path = "write_data" ->
           << <<"lock", "BUS">>, <<"lock", "acia">>,
              <<"lock", "LOGGER">>, <<"unlock", "LOGGER">>,
              <<"lock", "state">>, <<"unlock", "state">>,
              <<"lock", "state">>, <<"unlock", "state">>,
              <<"unlock", "acia">>, <<"unlock", "BUS">> >>
      [] path = "read_data" ->
           << <<"lock", "BUS">>, <<"lock", "acia">>,
              <<"lock", "state">>, <<"unlock", "state">>,
              <<"lock", "LOGGER">>, <<"unlock", "LOGGER">>,
              <<"unlock", "acia">>, <<"unlock", "BUS">> >>
      [] path = "read_stat" ->
           << <<"lock", "BUS">>, <<"lock", "acia">>,
              <<"lock", "state">>, <<"unlock", "state">>,
              <<"unlock", "acia">>, <<"unlock", "BUS">> >>

(* mutant: take() is called in the scrutinee of the if let, so that the    *)
(* guard of QUEUE lives to the end of the turn                             *)
main_locks_scrutinee(path) ==
    CASE path = "drain" ->
           << <<"lock", "QUEUE">>,
              <<"lock", "scsi">>, <<"unlock", "scsi">>,
              <<"unlock", "QUEUE">> >>
      [] path = "sleep" -> << <<"await", "timer">> >>

(* main: a turn of the drain loop, and the sleep after the loop *)
main_locks(path) ==
    CASE path = "drain" ->
           << <<"lock", "QUEUE">>, <<"unlock", "QUEUE">>,
              <<"lock", "scsi">>, <<"unlock", "scsi">> >>
      [] path = "sleep" -> << <<"await", "timer">> >>

(* AciaServer::run: a turn of the accept loop *)
AciaServer_run_locks(path) ==
    CASE path = "accept" ->
           << <<"await", "listener">>,
              <<"lock", "state">>, <<"unlock", "state">>,
              <<"await", "socket">> >>

(* mutant: the guard of AciaTransmit is kept while the byte is written *)
AciaServer_process_locks_kept(path) ==
    CASE path = "start" ->
           << <<"lock", "LOGGER">>, <<"unlock", "LOGGER">>,
              <<"lock", "state">>, <<"unlock", "state">>,
              <<"await", "socket">> >>
      [] path = "read" ->
           << <<"await", "socket">>,
              <<"lock", "state">>,
              <<"lock", "LOGGER">>, <<"unlock", "LOGGER">>,
              <<"unlock", "state">> >>
      [] path = "read_end" ->
           << <<"await", "socket">>,
              <<"lock", "LOGGER">>, <<"unlock", "LOGGER">>,
              <<"lock", "state">>, <<"unlock", "state">> >>
      [] path = "transmit" ->
           << <<"lock", "state">>,
              <<"lock", "LOGGER">>, <<"unlock", "LOGGER">>,
              <<"await", "socket">>, <<"unlock", "state">> >>
      [] path = "transmit_end" ->
           << <<"lock", "state">>, <<"unlock", "state">>,
              <<"lock", "LOGGER">>, <<"unlock", "LOGGER">>,
              <<"lock", "state">>, <<"unlock", "state">> >>

(* AciaServer::process: its start, a byte read, the end of the             *)
(* socket-to-device loop, a byte transmitted, the end of the               *)
(* device-to-socket loop                                                   *)
AciaServer_process_locks(path) ==
    CASE path = "start" ->
           << <<"lock", "LOGGER">>, <<"unlock", "LOGGER">>,
              <<"lock", "state">>, <<"unlock", "state">>,
              <<"await", "socket">> >>
      [] path = "read" ->
           << <<"await", "socket">>,
              <<"lock", "state">>,
              <<"lock", "LOGGER">>, <<"unlock", "LOGGER">>,
              <<"unlock", "state">> >>
      [] path = "read_end" ->
           << <<"await", "socket">>,
              <<"lock", "LOGGER">>, <<"unlock", "LOGGER">>,
              <<"lock", "state">>, <<"unlock", "state">> >>
      [] path = "transmit" ->
           << <<"lock", "state">>, <<"unlock", "state">>,
              <<"lock", "LOGGER">>, <<"unlock", "LOGGER">>,
              <<"await", "socket">> >>
      [] path = "transmit_end" ->
           << <<"lock", "state">>, <<"unlock", "state">>,
              <<"lock", "LOGGER">>, <<"unlock", "LOGGER">>,
              <<"lock", "state">>, <<"unlock", "state">> >>

(* the paths of an activity, each with its locks, unlocks and awaits *)
Paths(a) ==
    CASE a = "cpu" ->
           {Bus_locks(p) : p \in {"write_data", "read_data", "read_stat"}}
             \cup {main_locks(p) : p \in {"drain", "sleep"}}
      [] a = "run" -> {AciaServer_run_locks("accept")}
      [] OTHER ->
           {AciaServer_process_locks(p) :
              p \in {"start", "read", "read_end", "transmit", "transmit_end"}}

(* the activity a starts on a path *)
Activity_begin(a) ==
    /\ ~halted
    /\ net.lk[a].todo = <<>>
    /\ \E p \in Paths(a) : net' = [net EXCEPT !.lk[a].todo = p]
    /\ UNCHANGED <<map_rom, attached, mem, unit, halted, sound_written, last>>
    /\ UNCHANGED <<scsi, duart, acia, queue, now, irq, pc, hist, next_task>>

(* the activity a makes the next step of its path: a lock is taken when no *)
(* activity holds it                                                       *)
Activity_step(a) ==
    /\ ~halted
    /\ net.lk[a].todo # <<>>
    /\ \E i \in {Head(net.lk[a].todo)} :
         CASE i[1] = "lock" ->
                /\ \A b \in Activities : i[2] \notin net.lk[b].holds
                /\ net' = [net EXCEPT !.lk[a].todo = Tail(@),
                                      !.lk[a].holds = @ \cup {i[2]}]
           [] i[1] = "unlock" ->
                net' = [net EXCEPT !.lk[a].todo = Tail(@),
                                   !.lk[a].holds = @ \ {i[2]}]
           [] i[1] = "await" ->
                net' = [net EXCEPT !.lk[a].todo = Tail(@)]
    /\ UNCHANGED <<map_rom, attached, mem, unit, halted, sound_written, last>>
    /\ UNCHANGED <<scsi, duart, acia, queue, now, irq, pc, hist, next_task>>

NextLock ==
    \/ \E a \in Activities : Activity_begin(a)
    \/ \E a \in Activities : Activity_step(a)

SpecLock == InitMain /\ [][NextLock]_vars

----------------------------------------------------------------------------
(* SpecDrain: the drain loop of main, statement by statement.  A turn is   *)
(* the statement that assigns next_task, then the if let that calls        *)
(* service() or breaks; time passes between the two and between the turns. *)

(* the locks held after the instructions of a path, one after the other *)
RECURSIVE Locks_after(_, _)
Locks_after(holds, instrs) ==
    IF instrs = <<>> THEN holds
    ELSE Locks_after(
           CASE Head(instrs)[1] = "lock" -> holds \cup {Head(instrs)[2]}
             [] Head(instrs)[1] = "unlock" -> holds \ {Head(instrs)[2]}
             [] OTHER -> holds,
           Tail(instrs))

(* the position in a turn of the drain loop of the scsi.lock() that        *)
(* precedes service()                                                      *)
service_at ==
    CHOOSE i \in DOMAIN main_locks("drain") :
        main_locks("drain")[i] = <<"lock", "scsi">>

(* let next_task = QUEUE.lock().unwrap().take(); then the else arm of the  *)
(* if let when it is None: break, and the sleep is reached                 *)
main_take ==
    /\ ~halted
    /\ pc = "drain"
    /\ \E t \in {ServiceQueue_take(queue, now)} :
           /\ queue' = t.queue
           /\ next_task' = t.ret
           /\ last' = [NoCall EXCEPT !.op = "take", !.res = t.ret]
           /\ IF t.ret.some
              THEN /\ pc' = "service"
                   /\ net' = [net EXCEPT !.lk["cpu"].holds =
                                Locks_after(@, SubSeq(main_locks("drain"),
                                                      1, service_at - 1))]
              ELSE /\ pc' = "cpu"
                   /\ net' = [net EXCEPT !.lk["cpu"].holds =
                                Locks_after(@, SelectSeq(main_locks("drain"),
                                   LAMBDA i : i[2] = "QUEUE"))]
    /\ UNCHANGED <<map_rom, attached, mem, unit, halted, sound_written>>
    /\ UNCHANGED <<scsi, duart, acia, now, irq, hist>>

(* the Some arm of the if let: scsi.lock().unwrap().service(), and the end *)
(* of the turn                                                             *)
main_service ==
    /\ ~halted
    /\ pc = "service"
    /\ \E e \in {Scsi_service(scsi)} :
           /\ scsi' = e.scsi
           /\ irq' = set_irq(irq, e.irqs)
           /\ hist' = Hist_take(hist, next_task)
           /\ last' = [NoCall EXCEPT !.op = "service", !.dev = "scsi",
                                    !.value = next_task.when,
                                    !.irqs = e.irqs]
    /\ pc' = "drain"
    /\ net' = [net EXCEPT !.lk["cpu"].holds =
                 Locks_after(@, SubSeq(main_locks("drain"), service_at,
                                       Len(main_locks("drain"))))]
    /\ UNCHANGED <<map_rom, attached, mem, unit, halted, sound_written>>
    /\ UNCHANGED <<duart, acia, queue, now, next_task>>

(* the largest number of requests queued between two drains *)
MaxDrain == 3

(* the bytes written to the controller between the drains: ChipReset,      *)
(* SelectWithoutAtn and TransferInfo commands, and two destination ids     *)
DrainWrites ==
    ({RegAddr.Command} \X {\h00, \h09, \h14})
        \cup ({RegAddr.DestId} \X {\h0b, \h08})

NextDrain ==
    \/ /\ pc = "cpu"
       /\ \E x \in DrainWrites : m68k_write_memory(8, x[1], x[2])
       /\ BagCardinality(queue') <= MaxDrain
    \/ main_executed
    \/ main_take
    \/ main_service
    \/ Tick(ScsiTickMs)

SpecDrain == InitMain /\ [][NextDrain]_vars

----------------------------------------------------------------------------
(* Claims on the Memory device (SpecMem).                                  *)

(* the call recorded in c was made on an address of the device's range,    *)
(* even when the access is 16 or 32 bits wide                              *)
InRangeAligned(c) ==
    /\ range_contains(unit.d, c.addr)
    /\ (c.width = 8 \/ c.addr % 2 = 0)

(* the offset get_offset resolves for the call recorded in c *)
OffsetOf(c) == get_offset(unit.d, map_rom, c.addr)

(* C1 (as stated): on a writable Memory, write_N(a, v) at every address a  *)
(* of the device's range (a even for 16 and 32 bits) completes, and the    *)
(* read_N(a) that follows it returns Ok(v).                                *)
C1_RoundTrip ==
    [][ /\ (last'.op = "write" /\ ~unit.d.read_only /\ InRangeAligned(last'))
            => last'.res = Ok(0)
        /\ (/\ last.op = "write" /\ last'.op = "read"
            /\ last'.width = last.width /\ last'.addr = last.addr
            /\ ~unit.d.read_only /\ InRangeAligned(last))
            => last'.res = Ok(last.value) ]_vars

(* C2 (as stated): every write to a read-only Memory returns ReadOnly,     *)
(* whatever the address, and leaves the vector unchanged.                  *)
C2_AlwaysReadOnly ==
    [][ (last'.op = "write" /\ unit.d.read_only)
            => (last'.res = Err("ReadOnly") /\ unit'.m = unit.m) ]_vars

(* the result mem.rs gives a write to a read-only Memory *)
ReadOnlyFault(c) ==
    IF ~map_rom /\ ~range_contains(unit.d, c.addr) THEN Err("Access")
    ELSE IF c.width # 8
            /\ (IF map_rom THEN c.addr % unit.d.size
                ELSE (c.addr - unit.d.start_address) % unit.d.size) % 2 = 1
         THEN Err("Alignment")
    ELSE Err("ReadOnly")

(* C2 (amended): a write of any width to a read-only Memory never returns  *)
(* Ok and leaves the vector unchanged; it returns ReadOnly, except that it *)
(* returns Access when the address is outside the device's range while     *)
(* map_rom is false, and otherwise Alignment when the access is 16 or 32   *)
(* bits wide and the offset is odd.                                        *)
C2_ReadOnlyFaults ==
    [][ (last'.op = "write" /\ unit.d.read_only)
            => (/\ last'.res = ReadOnlyFault(last')
                /\ last'.res.tag \in BusError
                /\ unit'.m = unit.m) ]_vars

C2_Witness ==
    /\ last.op = "write" /\ unit.d.read_only
    /\ last.width = 32 /\ last.res = Err("ReadOnly")
    /\ ~range_contains(unit.d, last.addr)

(* C3: a 16- or 32-bit read or write whose offset is odd returns Alignment *)
(* and a write that returns Alignment changes no byte of the vector.       *)
C3_OddOffsetAlignment ==
    [][ /\ (/\ last'.op \in {"read", "write"} /\ last'.width \in {16, 32}
            /\ OffsetOf(last').tag = "Ok" /\ OffsetOf(last').val % 2 = 1)
            => last'.res = Err("Alignment")
        /\ (last'.op = "write" /\ last'.res = Err("Alignment"))
            => unit'.m = unit.m ]_vars

C3_Witness ==
    /\ last.op = "write" /\ last.width = 32 /\ ~unit.d.read_only
    /\ last.res = Err("Alignment") /\ unit.m # Zeroed

(* the device's backing store is smaller than its address window *)
Mirrored == unit.d.size < unit.d.end_address - unit.d.start_address + 1

(* the address of the first image of the window that shares a's offset *)
BaseOf(a) ==
    unit.d.start_address + ((a - unit.d.start_address) % unit.d.size)

(* C7 (as stated): on a Memory whose size S is smaller than its window, a  *)
(* read of start + k*S + offset gives what the read of start + offset      *)
(* gives, at every width, and a read past the end of the window returns    *)
(* Access.                                                                 *)
C7_MirrorOrAccess ==
    (Mirrored /\ last.op = "read") =>
        /\ range_contains(unit.d, last.addr) =>
             last.res = Memory_read(last.width, unit.d, unit.m, map_rom,
                                    BaseOf(last.addr))
        /\ last.addr > unit.d.end_address => last.res = Err("Access")

(* C7 (amended): as stated, except that on a read-only device while        *)
(* map_rom is set no range check is made: a read past the end of the       *)
(* window returns what the read of address (a mod S) returns.              *)
C7_MirrorOrAlias ==
    (Mirrored /\ last.op = "read") =>
        /\ range_contains(unit.d, last.addr) =>
             last.res = Memory_read(last.width, unit.d, unit.m, map_rom,
                                    BaseOf(last.addr))
        /\ last.addr > unit.d.end_address =>
             IF unit.d.read_only /\ map_rom
             THEN last.res = Memory_read(last.width, unit.d, unit.m, map_rom,
                                         last.addr % unit.d.size)
             ELSE last.res = Err("Access")

C7_Witness ==
    /\ Mirrored /\ last.op = "read" /\ last.width = 16
    /\ range_contains(unit.d, last.addr)
    /\ last.addr >= unit.d.start_address + unit.d.size
    /\ last.res.tag = "Ok" /\ last.res.val # 0

(* the byte v holds at position i of n, most significant first *)
ByteOf(v, i, n) ==
    CASE n - i = 4 -> (v \div 16777216) % 256
      [] n - i = 3 -> (v \div 65536) % 256
      [] n - i = 2 -> (v \div 256) % 256
      [] n - i = 1 -> v % 256

(* offsets to compare two vectors on: those either holds a byte at, and    *)
(* the four from o on                                                      *)
Probes(m1, m2, o) == DOMAIN m1 \cup DOMAIN m2 \cup (o .. o + 3)

(* C8: multi-byte accesses are big-endian and touch exactly their bytes:   *)
(* a write_16 or write_32 that returns Ok leaves the most significant byte *)
(* at the offset o, the next ones after it, and every byte outside         *)
(* [o, o+1] or [o, o+3] as it was; read_16 and read_32 return the bytes at *)
(* o.. in the same order.                                                  *)
C8_BigEndian ==
    [][ LET c == last'
            o == OffsetOf(c).val
            n == c.width \div 8
        IN  (c.op \in {"read", "write"} /\ c.width \in {16, 32}
             /\ c.res.tag = "Ok") =>
              IF c.op = "write"
              THEN \A x \in Probes(unit.m, unit'.m, o) :
                     Peek(unit'.m, x) =
                       IF x \in o .. (o + n - 1) THEN ByteOf(c.value, x - o, n)
                       ELSE Peek(unit.m, x)
              ELSE /\ unit'.m = unit.m
                   /\ \A i \in 0 .. (n - 1) :
                        ByteOf(c.res.val, i, n) = Peek(unit.m, o + i)
                   /\ c.res.val < (IF n = 2 THEN 65536 ELSE 2147483647) ]_vars

C8_Witness ==
    /\ last.op = "read" /\ last.width = 32 /\ last.res = Ok(\h01020304)
    /\ ~unit.d.read_only

----------------------------------------------------------------------------
(* Claims on the Bus and its entry points (Spec).                          *)

(* the fields of Bus that Bus::new() leaves None until their set_* call *)
Optional == {"acia", "video", "video_ram", "duart"}

(* address a lies in no region of the map, or in the region of a device    *)
(* that is not attached                                                    *)
NoDeviceAt(a) ==
    \/ region_of(a, map_rom) = "none"
    \/ region_of(a, map_rom) \in Optional \ attached

(* C4: a Bus read or write of any width at an address in no region of the  *)
(* address map, or in the region of a device not attached yet, returns     *)
(* Access and changes no device state and not map_rom.                     *)
C4_NoDeviceAccess ==
    [][ (last'.op \in {"read", "write"} /\ NoDeviceAt(last'.addr))
            => (/\ last'.res = Err("Access")
                /\ UNCHANGED <<map_rom, attached, mem, scsi, duart,
                               acia, queue, irq>>) ]_vars

C4_Witness ==
    /\ last.op = "write" /\ last.res = Err("Access")
    /\ region_of(last.addr, map_rom) = "video_ram"
    /\ "video" \in attached /\ "video_ram" \notin attached

(* the bytes of RAM at offset o, as an access of width w returns them *)
RamAt(w, o) ==
    CASE w = 8 -> Peek(mem["ram"], o)
      [] w = 16 -> Peek(mem["ram"], o) * 256 + Peek(mem["ram"], o + 1)
      [] w = 32 -> Peek(mem["ram"], o) * 16777216
                     + Peek(mem["ram"], o + 1) * 65536
                     + Peek(mem["ram"], o + 2) * 256 + Peek(mem["ram"], o + 3)

(* C5: while no write has reached the sound device, a read of 0x000100     *)
(* returns what a read of ROM address 0x740100 returns; after a write to   *)
(* the sound device it returns the RAM content at offset 0x100, whatever   *)
(* the ROM holds.                                                          *)
C5_LowMemoryAlias ==
    (last.op = "read" /\ last.addr = \h000100) =>
        IF ~sound_written
        THEN last.res = Bus_read(last.width, mem, map_rom, attached, \h740100)
        ELSE last.res = Ok(RamAt(last.width, \h100))

C5_Witness ==
    /\ sound_written /\ last.op = "read" /\ last.addr = \h000100
    /\ last.width = 32 /\ last.res = Ok(\h01020000)
    /\ Peek(mem["rom"], \h100) # 0

(* the call recorded in c is a write to the sound device *)
SoundWrite(c) == c.op = "write" /\ In(c.addr, SOUND_START, SOUND_END)

(* C6: map_rom is cleared by a sound-device write of any width and by      *)
(* nothing else; once false it is never true again; a sound write made     *)
(* when it is already false leaves the whole bus state unchanged; a        *)
(* sound-device read never clears it.                                      *)
C6_MapRomLatch ==
    [][ /\ SoundWrite(last') => ~map_rom'
        /\ (map_rom /\ ~map_rom') => SoundWrite(last')
        /\ ~map_rom => ~map_rom'
        /\ (~map_rom /\ SoundWrite(last'))
             => UNCHANGED <<map_rom, attached, mem>>
        /\ (last'.op = "read" /\ In(last'.addr, SOUND_START, SOUND_END))
             => map_rom' = map_rom ]_vars

(* a sound write made after RAM has been written: RAM is written only once *)
(* map_rom is false, so this is a second or later sound write              *)
C6_Witness ==
    /\ SoundWrite(last) /\ last.width = 16 /\ last.res = Ok(0)
    /\ ~map_rom /\ mem["ram"] # Zeroed

(* C9 (as stated): every m68k_read_memory_N returns a value at every       *)
(* address: 0 with exactly one bus-error notification when the Bus read    *)
(* fails with Access or Alignment, the value read with no notification     *)
(* when it succeeds.                                                       *)
C9_ReadTotal ==
    last.op = "read" =>
        /\ last.returned
        /\ last.res.tag \in {"Access", "Alignment"}
             => (last.ret = 0 /\ last.traps = 1)
        /\ last.res.tag = "Ok" => (last.ret = last.res.val /\ last.traps = 0)

(* C10: m68k_write_memory_N raises the bus-error notification exactly when *)
(* the Bus write fails with Access or Alignment; a write that fails with   *)
(* ReadOnly and a write that succeeds raise none.                          *)
C10_WriteTraps ==
    last.op = "write" =>
        /\ last.traps \in {0, 1}
        /\ last.traps = 1 <=> last.res.tag \in {"Access", "Alignment"}
        /\ last.res.tag \in {"ReadOnly", "Ok"} => last.traps = 0

C10_Witness ==
    /\ last.op = "write" /\ last.res = Err("ReadOnly") /\ last.traps = 0
    /\ last.dev = "rom" /\ ~map_rom

(* C12 (as stated): every Bus read and write of width 8, 16 or 32 at every *)
(* address completes with Ok or with one of the three BusError values;     *)
(* none aborts or unwinds, a 16- or 32-bit access at the last even offset  *)
(* of a Memory included.                                                   *)
C12_NoUnwind ==
    (last.op \in {"read", "write"} /\ last.width \in Widths) =>
        /\ last.res.tag \in {"Ok"} \cup BusError
        /\ ~halted

----------------------------------------------------------------------------
(* Claims on the service queue (SpecQueue).                                *)

(* the deadlines of the requests in the queue *)
Deadlines(q) == {r.when : r \in BagToSet(q)}

(* the earliest of a non-empty set of deadlines *)
Earliest(ws) == CHOOSE x \in ws : \A y \in ws : x <= y

(* C13: take() returns None when the queue is empty or its earliest        *)
(* deadline has not elapsed (the clock is not past it), and leaves the     *)
(* queue as it was; otherwise it returns one request, whose deadline is    *)
(* the earliest of all queued, and removes that one request only.          *)
C13_TakeEarliestDue ==
    [][ last'.op = "take" =>
          IF queue = EmptyBag \/ ~(now > Earliest(Deadlines(queue)))
          THEN last'.res = None /\ queue' = queue
          ELSE /\ last'.res.some
               /\ last'.res.key = "Scsi"
               /\ last'.res.when = Earliest(Deadlines(queue))
               /\ BagIn(last'.res, queue)
               /\ queue' (+) SetToBag({last'.res}) = queue
               /\ BagCardinality(queue') = BagCardinality(queue) - 1 ]_vars

C13_Witness ==
    /\ last.op = "take" /\ last.res.some
    /\ \E r \in BagToSet(queue) : r.when > last.res.when /\ now > r.when

----------------------------------------------------------------------------
(* Claims on the SCSI controller (SpecScsi).                               *)

(* the call recorded in c is a byte written to the SCSI command register   *)
(* whose opcode, the low five bits, is one of ops                          *)
CommandWrite(c, ops) ==
    /\ c.op = "write" /\ c.dev = "scsi" /\ c.width = 8
    /\ c.addr = RegAddr.Command
    /\ (c.value % 32) \in ops

(* C14: after a ChipReset command written to the command register, from    *)
(* any state, aux-status is 0x02, the interrupt register is 0, the         *)
(* command-byte pointer is 0 and the 8 per-device states are Unselected.   *)
C14_ChipReset ==
    CommandWrite(last, {0}) =>
        /\ scsi.aux_stat = \h02
        /\ scsi.interrupt = 0
        /\ scsi.cmd_ptr = 0
        /\ \A i \in 0 .. 7 : scsi.devices[i] = "Unselected"

(* a reset written while a service request of a select is queued *)
C14_Witness ==
    /\ CommandWrite(last, {0})
    /\ queue # EmptyBag /\ irq = SCSI_INT
    /\ now > 0

(* C15: right after a SelectWithoutAtn or SelectWithAtn command the device *)
(* dest_id & 7 is Selected, aux-status has C/D set and I/O and MSG clear,  *)
(* the interrupt register has FC set, source-id is 0x80 | dest_id, the     *)
(* interrupt line has been signaled at level 3, and the queue holds one    *)
(* more Scsi request, whose deadline is later than the time of the write.  *)
C15_Select ==
    [][ CommandWrite(last', {8, 9}) =>
          /\ scsi'.devices[scsi.dest_id % 8] = "Selected"
          /\ BitAnd(scsi'.aux_stat, \h38) = \h10
          /\ BitAnd(scsi'.interrupt, \h01) = \h01
          /\ scsi'.dest_id = scsi.dest_id
          /\ scsi'.source_id = BitOr(\h80, scsi.dest_id)
          /\ last'.irqs = <<3>> /\ irq' = 3
          /\ \E r \in BagToSet(queue') :
               /\ r.key = "Scsi" /\ r.when > now
               /\ queue' = queue (+) SetToBag({r}) ]_vars

C15_Witness ==
    /\ CommandWrite(last, {8}) /\ scsi.dest_id = \h0b
    /\ scsi.devices[3] = "Selected" /\ scsi.source_id = \h8b
    /\ BagCardinality(queue) = 2

(* the call recorded in c is an access to a register of the controller *)
ScsiAccess(c) == c.op \in {"read", "write", "disasm"} /\ c.dev = "scsi"

(* C16 (as stated): no read or write of a SCSI register takes a device out *)
(* of the state Selected or Command in the same call.                      *)
C16_NoTransitionOnAccess ==
    [][ ScsiAccess(last') =>
          \A i \in 0 .. 7 :
            scsi.devices[i] \in {"Selected", "Command"}
              => scsi'.devices[i] = scsi.devices[i] ]_vars

(* C16 (amended): a read or write of a SCSI register changes a per-device  *)
(* state only by a ChipReset command, to Unselected, or by a select        *)
(* command, to Selected for the device dest_id & 7; the step from Selected *)
(* to Command is made by service() only, in a turn of the drain loop that  *)
(* has taken a request whose deadline has elapsed.                         *)
C16_ServiceOnlyInDrain ==
    [][ /\ ScsiAccess(last') =>
             \A i \in 0 .. 7 :
               scsi'.devices[i] # scsi.devices[i] =>
                 \/ CommandWrite(last', {0}) /\ scsi'.devices[i] = "Unselected"
                 \/ /\ CommandWrite(last', {8, 9})
                    /\ i = scsi.dest_id % 8
                    /\ scsi'.devices[i] = "Selected"
        /\ (\E i \in 0 .. 7 : /\ scsi.devices[i] = "Selected"
                             /\ scsi'.devices[i] = "Command") =>
             /\ last'.op = "service" /\ pc = "drain"
             /\ \E r \in BagToSet(queue) :
                  now > r.when /\ queue' = queue (-) SetToBag({r}) ]_vars

C16_Witness ==
    /\ last.op = "service" /\ scsi.devices[3] = "Command"
    /\ scsi.interrupt = INT_BUS /\ last.irqs = <<SCSI_INT>>

(* C17 (as stated): a ChipReset leaves every queued request in the queue,  *)
(* and the service() call made for a request that was queued before the    *)
(* reset changes no register and no per-device state and does not signal   *)
(* the interrupt line.                                                     *)
C17_StaleServiceIdle ==
    [][ /\ CommandWrite(last', {0}) => queue' = queue
        /\ (last'.op = "service" /\ hist'.stale_taken) =>
             (scsi' = scsi /\ last'.irqs = <<>> /\ irq' = irq) ]_vars

(* C18 (as stated): the interrupt flags are OR-accumulated and cleared on  *)
(* read: a select command or a service() call leaves the flags that were   *)
(* pending set, and a read of the interrupt register returns the pending   *)
(* flags and leaves the register 0.                                        *)
C18_InterruptReadClears ==
    [][ /\ (last'.op = "read" /\ last'.dev = "scsi" /\ last'.width = 8
            /\ last'.addr = RegAddr.Interrupt) =>
             (last'.res = Ok(scsi.interrupt) /\ scsi'.interrupt = 0)
        /\ (CommandWrite(last', {8, 9}) \/ last'.op = "service") =>
             BitAnd(scsi'.interrupt, scsi.interrupt) = scsi.interrupt ]_vars

(* the opcodes handle_command gives no routine *)
Unhandled == (0 .. 31) \ {0, 1, 8, 9, 20, 21}

(* C19: a write to the command register whose opcode is none of chip       *)
(* reset, disconnect, select with or without attention, transfer-info and  *)
(* transfer-pad returns Ok, leaves aux-status, the interrupt register,     *)
(* source-id, dest-id and the 8 per-device states unchanged, schedules no  *)
(* service request and does not signal the interrupt line.                 *)
C19_UnhandledOpcode ==
    [][ CommandWrite(last', Unhandled) =>
          /\ last'.res = Ok(0)
          /\ scsi'.aux_stat = scsi.aux_stat
          /\ scsi'.interrupt = scsi.interrupt
          /\ scsi'.source_id = scsi.source_id
          /\ scsi'.dest_id = scsi.dest_id
          /\ scsi'.devices = scsi.devices
          /\ queue' = queue
          /\ last'.irqs = <<>> /\ irq' = irq ]_vars

C19_Witness ==
    /\ CommandWrite(last, {16}) /\ last.value = \h50
    /\ scsi.devices[3] = "Selected" /\ scsi.interrupt = INT_FC
    /\ queue # EmptyBag

----------------------------------------------------------------------------
(* Claims on the DUART, the ACIA and the disassembler reads (SpecIo).      *)

(* C11 (as stated): a disassembler read of any width at any address leaves *)
(* every device, every queue, map_rom and the interrupt line as they were  *)
(* and raises no bus-error notification.                                   *)
C11_DisassemblerReadPure ==
    [][ last'.op = "disasm" =>
          /\ UNCHANGED <<map_rom, attached, mem, scsi, duart, acia, queue,
                         irq>>
          /\ last'.irqs = <<>>
          /\ last'.traps = 0 ]_vars

(* the call recorded in c is the command byte v written to the command     *)
(* register of the port                                                    *)
DuartCommand(c, port, v) ==
    /\ c.op = "write" /\ c.dev = "duart" /\ c.width = 8
    /\ c.addr = (IF port = PORT_A THEN CRA ELSE CRB)
    /\ c.value % 256 = v

(* the other port's status, configuration and mode pointer are unchanged *)
OtherPortKept(port) ==
    /\ duart'.ports[1 - port].stat = duart.ports[1 - port].stat
    /\ duart'.ports[1 - port].conf = duart.ports[1 - port].conf
    /\ duart'.ports[1 - port].mode_ptr = duart.ports[1 - port].mode_ptr

(* C20: the command byte 0x08 clears the transmit-ready and transmit-empty *)
(* status bits of its port and the port's transmitter-enabled flag, and on *)
(* port A the TX interrupt source too; the command byte 0x04 sets both     *)
(* status bits; either leaves the other port's status, configuration and   *)
(* mode pointer unchanged.                                                 *)
C20_TransmitterCommands ==
    [][ \A port \in {PORT_A, PORT_B} :
          /\ DuartCommand(last', port, \h08) =>
               /\ BitAnd(duart'.ports[port].stat, \h0c) = 0
               /\ BitAnd(duart'.ports[port].conf, \h01) = 0
               /\ port = PORT_A => BitAnd(duart'.ivec, \h10) = 0
               /\ OtherPortKept(port)
          /\ DuartCommand(last', port, \h04) =>
               /\ BitAnd(duart'.ports[port].stat, \h0c) = \h0c
               /\ OtherPortKept(port) ]_vars

(* port B's transmitter disabled while port A's is enabled, port A's mode  *)
(* pointer is at its second register and a key code waits in port A        *)
C20_Witness ==
    /\ DuartCommand(last, PORT_B, \h08)
    /\ BitAnd(duart.ports[PORT_A].stat, \h0c) = \h0c
    /\ duart.ports[PORT_A].conf = BitOr(CNF_ETX, CNF_ERX)
    /\ duart.ports[PORT_A].mode_ptr = 1
    /\ duart.ports[PORT_A].rx_queue # <<>>
    /\ BitAnd(duart.ivec, TX_INT) # 0

----------------------------------------------------------------------------
(* Claims on the mode registers of the DUART (SpecIo).                     *)

(* the call just made was a CPU access to the mode register of the port *)
ModeAccess(c, port) ==
    /\ c.op \in {"read", "write"} /\ c.dev = "duart" /\ c.returned
    /\ c.addr = (IF port = PORT_A THEN MR12A ELSE MR12B)

(* C21: each port's mode pointer is 0 or 1 and toggles on every access to  *)
(* the port's mode register, read or write and at every width; the access  *)
(* leaves the other port's mode pointer alone, and a write stores the byte *)
(* in the mode byte the pointer selected before the toggle.                *)
C21_ModePointerToggles ==
    [][ \A port \in {PORT_A, PORT_B} :
          /\ duart'.ports[port].mode_ptr \in {0, 1}
          /\ ModeAccess(last', port) =>
               /\ duart'.ports[port].mode_ptr
                    = 1 - duart.ports[port].mode_ptr
               /\ duart'.ports[1 - port].mode_ptr
                    = duart.ports[1 - port].mode_ptr
               /\ last'.op = "write" =>
                    duart'.ports[port].mode[duart.ports[port].mode_ptr]
                      = last'.value % 256 ]_vars

----------------------------------------------------------------------------
(* Claims on the ACIA server (SpecNet, SpecNetFair).                       *)

(* the tasks the runtime has to run, run: a task that has been spawned     *)
(* starts, a task that has been woken is polled, and a poll of a future    *)
(* ends; so does a call of Acia::write_8.  The clients and the program the *)
(* CPU runs owe nothing.                                                   *)
SpecNetFair ==
    /\ SpecNet
    /\ \A c \in Conns :
         /\ WF_vars(AciaServer_process(c))
         /\ WF_vars(join_poll(c))
         /\ WF_vars(AciaServer_process_reader(c))
         /\ WF_vars(AciaServer_process_writer(c))
    /\ WF_vars(Acia_write_8_wake)

(* C22: at most one session has its socket-to-device or device-to-socket   *)
(* loop running, under every interleaving of the accept loop, the session  *)
(* tasks and the CPU; a connection accepted while a session runs gets the  *)
(* "Already connected" message and is closed, if the message can be       *)
(* written.                                                                *)
C22_OneSession ==
    /\ [](\A c, d \in Conns :
            net.conn[c].st = "run" /\ net.conn[d].st = "run" => c = d)
    /\ [][ \A c, d \in Conns :
             /\ net.conn[d].st = "run"
             /\ net.conn[c].st = "pending"
             /\ net'.conn[c].st # "pending"
             => net'.conn[c].st \in {"rejected", "panicked"} ]_vars

(* C23: the rejection of a connection leaves the shared state of the ACIA  *)
(* as it was: the two queues, the connected flag, the waker.               *)
C23_RejectKeepsState ==
    [][ \A c \in Conns :
          net.conn[c].st = "pending" /\ net'.conn[c].st = "rejected"
          => acia'.state = acia.state ]_vars

(* a connection rejected while the session in progress has a byte received *)
(* and its device-to-socket loop suspended                                 *)
C23_Witness ==
    \E c, d \in Conns :
        /\ net.conn[c].st = "rejected"
        /\ net.conn[c].out = <<Written("goodbye", 0)>>
        /\ net.conn[d].st = "run"
        /\ net.conn[d].wr = "pending"
        /\ acia.state.connected
        /\ acia.state.waker = d
        /\ acia.state.rx_data # <<>>

(* C24: the first writes on the socket of an accepted connection are the 9 *)
(* bytes of the handshake, in full.                                        *)
C24_HandshakeFirst ==
    \A c \in Conns :
        net.conn[c].st \in {"spawned", "run"} /\ net.conn[c].out # <<>>
        => /\ Len(net.conn[c].out) >= Len(HANDSHAKE)
           /\ SubSeq(net.conn[c].out, 1, Len(HANDSHAKE)) = handshake_written

(* what the socket-to-device loop of a session enqueues of the bytes it    *)
(* reads: a byte 0xFF and the two bytes after it are left out              *)
RECURSIVE Enqueued(_)
Enqueued(bytes) ==
    IF bytes = <<>> THEN <<>>
    ELSE IF Head(bytes) = 255 THEN Enqueued(SubSeq(bytes, 4, Len(bytes)))
    ELSE <<Head(bytes)>> \o Enqueued(Tail(bytes))

(* C25: of the bytes a session reads, a byte 0xFF received in data state   *)
(* and the two bytes after it are consumed, across socket reads too, and   *)
(* every other byte is pushed to the receive queue, in arrival order;      *)
(* stated for a session that is the only one and a queue with room.        *)
C25_TelnetStripped ==
    [][ \A c \in Conns :
          /\ net.conn[c].st = "run"
          /\ net'.conn[c].st = "run"
          /\ net'.conn[c].got # net.conn[c].got
          /\ \A d \in Conns : net.conn[d].st \in {"spawned", "run"} => d = c
          /\ Len(acia.state.rx_data) + Len(net.conn[c].inq)
               <= AciaQueueCapacity
          => acia'.state.rx_data \o Enqueued(net.conn[c].got)
               = acia.state.rx_data \o Enqueued(net'.conn[c].got) ]_vars

(* C26: once a loop of a session has ended, on a read error, a read of 0   *)
(* bytes or a write error, both loops of the session end, with no write of *)
(* the CPU to the ACIA needed; stated for as long as the emulator runs and *)
(* no other connection is opened.                                          *)
C26_BothLoopsEnd ==
    \A c \in Conns :
        (/\ net.conn[c].st = "run"
         /\ net.conn[c].rd = "done" \/ net.conn[c].wr = "done")
        ~> \/ net.conn[c].st # "run"
           \/ halted
           \/ \E d \in Conns : d # c /\ net.conn[d].st # "none"

(* C27: no failed read or write on a socket stops the CPU or the accept    *)
(* loop.                                                                   *)
C27_NetworkErrorsContained ==
    ~halted /\ net.run = "accept"

(* the status byte Acia::read_8 makes of the shared state *)
StatusBits(st) ==
    (IF st.rx_data # <<>> THEN 8 ELSE 0)
        + (IF st.tx_data = <<>> THEN 16 ELSE 0)
        + (IF ~st.connected THEN 96 ELSE 0)

(* C28: a read of STAT_REG returns bit 0x08 exactly when the receive queue *)
(* is not empty, bit 0x10 exactly when the transmit queue is empty, bits   *)
(* 0x60 exactly when connected is false, and no other bit; it changes      *)
(* neither queue nor the connected flag.                                   *)
C28_StatusRead ==
    [][ last'.op = "read" /\ last'.addr = STAT_REG /\ last'.width = 8
        => /\ last'.ret = StatusBits(acia.state)
           /\ acia'.state = acia.state ]_vars

(* the status read with a client connected, a byte received and a byte to  *)
(* transmit                                                                *)
C28_Witness ==
    /\ last.op = "read" /\ last.addr = STAT_REG
    /\ last.ret = 8
    /\ acia.state.connected
    /\ acia.state.rx_data # <<>>
    /\ acia.state.tx_data # <<>>

(* the session of connection c serves a client that has not left *)
Active(c) ==
    /\ net.conn[c].st = "run"
    /\ net.conn[c].sock = "open"
    /\ net.conn[c].rd # "done"
    /\ net.conn[c].wr # "done"

(* the CPU has written byte b to DATA_REG for the client of connection c,  *)
(* the only one connected                                                  *)
WrittenFor(c, b) ==
    /\ last.op = "write" /\ last.addr = DATA_REG /\ last.value = b
    /\ acia.state.connected
    /\ Active(c)
    /\ \A d \in Conns : Active(d) => d = c

(* the bytes of the transmit queue written to the socket of c *)
Delivered(c) ==
    SelectSeq(net.conn[c].out, LAMBDA x : x.msg = "data")

(* C29: a byte the CPU writes to DATA_REG while a client is connected      *)
(* reaches the socket of that client, unless the client leaves or the      *)
(* emulator ends first, and the bytes reach a socket in the order they     *)
(* were written.                                                           *)
C29_ByteDelivered ==
    /\ \A c \in Conns : \A b \in FirstTxByte .. (FirstTxByte + MaxTx) :
         WrittenFor(c, b)
           ~> \/ \E i \in DOMAIN Delivered(c) : Delivered(c)[i].val = b
              \/ ~Active(c)
              \/ halted
    /\ [](\A c \in Conns : \A i, j \in DOMAIN Delivered(c) :
            i < j => Delivered(c)[i].val < Delivered(c)[j].val)

----------------------------------------------------------------------------
(* Claims on the locks (SpecLock).                                         *)

(* the activity a is about to lock what the activity b holds *)
WaitsFor(a, b) ==
    /\ net.lk[a].todo # <<>>
    /\ Head(net.lk[a].todo)[1] = "lock"
    /\ Head(net.lk[a].todo)[2] \in net.lk[b].holds

(* the activity a is suspended in an await *)
Awaits(a) ==
    /\ net.lk[a].todo # <<>>
    /\ Head(net.lk[a].todo)[1] = "await"

(* the activity a can make its next step *)
Runnable(a) ==
    /\ net.lk[a].todo # <<>>
    /\ ~Awaits(a)
    /\ \A b \in Activities : ~WaitsFor(a, b)

(* the lock a waits for is held by an activity that can run, or that waits *)
(* for one that can, through at most n holders                             *)
RECURSIVE Unblocked(_, _)
Unblocked(a, n) ==
    \A b \in Activities :
        WaitsFor(a, b)
        => \/ Runnable(b)
           \/ n > 0 /\ b # a /\ (\E d \in Activities : WaitsFor(b, d))
                /\ Unblocked(b, n - 1)

(* C30: no activity waits for ever for a lock: the holder of a lock that   *)
(* an activity waits for can run, or waits for a holder that can; and an   *)
(* activity suspended in an await, on a stalled socket for one, holds no   *)
(* lock.                                                                   *)
C30_NoLockWait ==
    \A a \in Activities :
        /\ Awaits(a) => net.lk[a].holds = {}
        /\ Unblocked(a, Cardinality(Activities))

(* the CPU, inside a Bus dispatch to the Acia, waits for the state lock a  *)
(* session holds while the other session is suspended on its socket        *)
C30_Witness ==
    /\ WaitsFor("cpu", "session1")
    /\ net.lk["cpu"].holds = {"BUS", "acia"}
    /\ net.lk["session1"].holds = {"state"}
    /\ Awaits("session2")

----------------------------------------------------------------------------
(* Claims on the drain loop (SpecDrain).                                   *)

(* the call recorded in c is a read or a write the CPU makes in a step *)
CpuAccess(c) == c.op \in {"read", "write", "disasm"}

(* C31: take() and service() run in the drain loop only, after the batch   *)
(* of CPU steps and before the next, and no CPU access is made in the      *)
(* drain; the requests of one drain are serviced earliest deadline first,  *)
(* each after its deadline has elapsed; the drain ends at the first take() *)
(* that finds no request due, with every request left in the queue not     *)
(* due and the queue as it was; the lock of QUEUE is not held when         *)
(* service() is called, nor after the drain.                               *)
C31_DrainBetweenBatches ==
    [][ /\ last'.op \in {"take", "service"} => pc \in {"drain", "service"}
        /\ CpuAccess(last') => (pc = "cpu" /\ pc' = "cpu")
        /\ (last'.op = "take" /\ next_task'.some) =>
             /\ now > next_task'.when
             /\ \A r \in BagToSet(queue) : next_task'.when <= r.when
             /\ queue' (+) SetToBag({next_task'}) = queue
             /\ next_task.some => next_task.when <= next_task'.when
        /\ (last'.op = "take" /\ ~next_task'.some) =>
             /\ queue' = queue /\ pc' = "cpu"
             /\ \A r \in BagToSet(queue) : ~(now > r.when)
        /\ last'.op = "service" =>
             /\ next_task.some /\ last'.value = next_task.when
             /\ "QUEUE" \notin net.lk["cpu"].holds
        /\ pc' = "cpu" => net'.lk["cpu"].holds = {} ]_vars

(* a drain has serviced the request of a select and has stopped at the     *)
(* request of a transfer-info that is not due, which stays queued          *)
C31_Witness ==
    /\ pc = "cpu" /\ last.op = "take" /\ ~last.res.some
    /\ scsi.devices[3] = "Command" /\ scsi.interrupt = INT_BUS
    /\ \E r \in BagToSet(queue) : r.when >= now

----------------------------------------------------------------------------
(* Claims on Scsi::service (SpecDrain).                                    *)

(* the phase code of an aux-status value: its MSG, C/D and I/O bits *)
Phase(aux) == BitAnd(aux, BitOr(AUX_MSG, BitOr(AUX_CD, AUX_IO)))

CommandPhase == AUX_CD
StatusPhase == BitOr(AUX_CD, AUX_IO)
DataInPhase == AUX_IO

(* what service() does to the device dest_id & 7: from Selected it moves   *)
(* the device to Command, sets bus-service and leaves aux-status at the    *)
(* Command phase; in Command it sets bus-service and function-complete,    *)
(* clears data1, sets aux-status to Data-In after Status and to Status     *)
(* after any other phase, and keeps every per-device state                 *)
ServicePhases ==
    \A id \in {scsi.dest_id % 8} :
        /\ (last'.op = "service" /\ scsi.devices[id] = "Selected") =>
             /\ scsi'.devices = [scsi.devices EXCEPT ![id] = "Command"]
             /\ BitAnd(scsi'.interrupt, INT_BUS) = INT_BUS
             /\ scsi'.aux_stat = AUX_CD
        /\ (last'.op = "service" /\ scsi.devices[id] = "Command") =>
             /\ scsi'.devices = scsi.devices
             /\ BitAnd(scsi'.interrupt, BitOr(INT_BUS, INT_FC))
                   = BitOr(INT_BUS, INT_FC)
             /\ scsi'.data1 = 0
             /\ scsi'.aux_stat =
                   IF Phase(scsi.aux_stat) = StatusPhase
                   THEN BitOr(AUX_DF, DataInPhase)
                   ELSE BitOr(AUX_DF, StatusPhase)

(* once a device is in Command, the phase and the Command states are kept  *)
(* between the service() calls by every step but a write to the command    *)
(* register of one of ops                                                  *)
PhaseKeptUnless(ops) ==
    (last'.op # "service" /\ \E i \in 0 .. 7 : scsi.devices[i] = "Command") =>
        /\ Phase(scsi'.aux_stat) # Phase(scsi.aux_stat)
             => CommandWrite(last', ops)
        /\ \A i \in 0 .. 7 :
             (scsi.devices[i] = "Command" /\ scsi'.devices[i] # "Command")
               => CommandWrite(last', ops)

(* C32 (as stated): the service() calls follow the phase protocol, and the *)
(* alternation of Status and Data-In and the state Command of the device   *)
(* last until a ChipReset command.                                         *)
C32_PhaseProtocol == [][ServicePhases /\ PhaseKeptUnless({0})]_vars

(* C32 (amended): the service() calls follow the phase protocol, and the   *)
(* alternation of Status and Data-In and the state Command of the device   *)
(* last until a ChipReset or a select command: a select command puts the   *)
(* device dest_id & 7 in Selected and aux-status at the Command phase.     *)
C32_PhaseProtocolUnlessSelect ==
    [][ /\ ServicePhases
        /\ PhaseKeptUnless({0, 8, 9})
        /\ CommandWrite(last', {8, 9}) =>
             /\ scsi'.devices[scsi.dest_id % 8] = "Selected"
             /\ Phase(scsi'.aux_stat) = CommandPhase ]_vars

(* the third service() call for a device that has stayed in Command: the   *)
(* phases were Command, Status and now Data-In                             *)
C32_Witness ==
    /\ last.op = "service" /\ scsi.devices[3] = "Command"
    /\ scsi.dest_id = \h0b
    /\ scsi.aux_stat = BitOr(AUX_DF, DataInPhase)
    /\ scsi.interrupt = BitOr(INT_BUS, INT_FC)

(* C33: a service() call that changes a register of the controller or a    *)
(* per-device state has called set_irq(3) when it returns; a service()     *)
(* call that finds the device dest_id & 7 Unselected calls nothing and     *)
(* changes nothing; the arm of service() that changes registers without    *)
(* set_irq, DataOut, is never entered: no device is ever in that state.    *)
C33_ServiceSignals ==
    /\ [][ last'.op = "service" =>
              /\ scsi' # scsi => last'.irqs = <<SCSI_INT>>
              /\ scsi.devices[scsi.dest_id % 8] = "Unselected" =>
                   (last'.irqs = <<>> /\ scsi' = scsi) ]_vars
    /\ [](\A i \in 0 .. 7 : scsi.devices[i] # "DataOut")

(* a service() call that found the device in Command, has set the Status   *)
(* phase and has called set_irq(3)                                         *)
C33_Witness ==
    /\ last.op = "service" /\ last.irqs = <<SCSI_INT>>
    /\ scsi.devices[3] = "Command"
    /\ scsi.aux_stat = BitOr(AUX_DF, StatusPhase)

----------------------------------------------------------------------------
(* Claims on the keyboard (SpecKeys).                                      *)

(* the scan codes of the key events: key-up has bit 0x80 set *)
ScanCodes(op) ==
    {IF op = "key_up" THEN BitOr(map_keycode(k), \h80) ELSE map_keycode(k) :
       k \in KeyboardKeys}

(* C34: a key-down or key-up event with the receiver of port A enabled     *)
(* appends one scan code to the receive queue of port A, with bit 0x80 set *)
(* for key-up and clear for key-down, sets STS_RXR in the status of port A *)
(* and ISTS_RAI and RX_INT in the interrupt registers, and changes nothing *)
(* else; with the receiver disabled it leaves the Duart as it was.         *)
C34_KeyEvent ==
    [][ last'.op \in {"key_down", "key_up"} =>
          IF BitAnd(duart.ports[PORT_A].conf, CNF_ERX) # 0
          THEN \E c \in ScanCodes(last'.op) :
                 /\ (c >= \h80) = (last'.op = "key_up")
                 /\ duart' =
                      [duart EXCEPT
                         !.ports[PORT_A].rx_queue = Append(@, c),
                         !.ports[PORT_A].stat = BitOr(@, STS_RXR),
                         !.istat = BitOr(@, ISTS_RAI),
                         !.ivec = BitOr(@, RX_INT)]
                 /\ BitAnd(duart'.ports[PORT_A].stat, STS_RXR) # 0
                 /\ BitAnd(duart'.istat, ISTS_RAI) # 0
                 /\ BitAnd(duart'.ivec, RX_INT) # 0
          ELSE duart' = duart ]_vars

(* the key A released after it was pressed, the receiver enabled *)
C34_Witness ==
    /\ last.op = "key_up"
    /\ duart.ports[PORT_A].rx_queue = <<\h1d, \h9d>>
    /\ BitAnd(duart.ports[PORT_A].stat, STS_RXR) # 0
    /\ BitAnd(duart.istat, ISTS_RAI) # 0

(* C37 (as stated): a read of the receive holding register of port A with  *)
(* scan codes queued returns the code queued first and removes it, so that *)
(* the codes are read in the order of the key events; the read clears      *)
(* STS_RXR when it has emptied the queue and leaves it alone otherwise.    *)
C37_KeyOrder ==
    [][ \A q \in {duart.ports[PORT_A].rx_queue} :
          (last'.op = "read" /\ last'.width = 8 /\ last'.addr = THRA
             /\ q # <<>>) =>
              /\ last'.res = Ok(Head(q))
              /\ duart'.ports[PORT_A].rx_queue = Tail(q)
              /\ BitAnd(duart'.ports[PORT_A].stat, STS_RXR) =
                   IF Tail(q) = <<>> THEN 0
                   ELSE BitAnd(duart.ports[PORT_A].stat, STS_RXR) ]_vars

----------------------------------------------------------------------------
(* Claims on the clock-select register (SpecClock).                        *)

(* C35 (as stated): a write of any byte to the clock-select register of    *)
(* port A returns Ok and stores as the character delay of port A the entry *)
(* (value >> 4) & 0xF of the table ACR bit 7 selects, DELAY_RATES_A when   *)
(* it is 0 and DELAY_RATES_B when it is 1, and changes nothing else of the *)
(* Duart.                                                                  *)
C35_ClockSelect ==
    [][ (last'.op = "write" /\ last'.width = 8 /\ last'.addr = CSRA) =>
          /\ last'.res = Ok(0)
          /\ ~halted'
          /\ \E i \in {(last'.value \div 16) % 16} :
               duart' =
                 [duart EXCEPT !.ports[PORT_A].char_delay =
                    IF BitAnd(duart.acr, \h80) = 0
                    THEN DELAY_RATES_A[i + 1]
                    ELSE DELAY_RATES_B[i + 1]] ]_vars

----------------------------------------------------------------------------
(* Claims on the SCSI command buffer (SpecCmd).                            *)

(* C36 (as stated): the command-byte write pointer is within 0 .. 15 in    *)
(* every state, and every write to the data register returns Ok and        *)
(* stores the byte in scsi_cmd at the pointer, which is inside the         *)
(* 16-byte buffer.                                                         *)
C36_CommandPointer ==
    /\ [](scsi.cmd_ptr \in 0 .. 15)
    /\ [][ (last'.op = "write" /\ last'.width = 8
             /\ last'.addr = RegAddr.Data1) =>
              /\ last'.res = Ok(0)
              /\ ~halted'
              /\ scsi.cmd_ptr \in 0 .. 15
              /\ scsi'.scsi_cmd =
                   [scsi.scsi_cmd EXCEPT ![scsi.cmd_ptr] = last'.value] ]_vars

----------------------------------------------------------------------------
(* Claims on the queues of the ACIA (SpecAcia).                            *)

(* the call recorded in c is an 8-bit access op of the CPU to the register *)
(* addr of the ACIA                                                        *)
AciaAccess(c, op, addr) == c.op = op /\ c.width = 8 /\ c.addr = addr

(* C38 (as stated): the two queues hold at most 8 bytes; a push, of a byte *)
(* read from the socket or written to the data register, appends the byte  *)
(* at the back, or leaves a full queue as it was; the session takes the    *)
(* oldest byte of the transmit queue; a read of the data register returns  *)
(* and removes the oldest byte of the receive queue, or, the queue being   *)
(* empty, returns the register data and removes nothing, and data is the   *)
(* last byte read: only a read of the data register changes it, to the     *)
(* byte it returns; a write to the status register empties both queues.    *)
C38_AciaQueues ==
    /\ [](/\ Len(acia.state.rx_data) <= 8
          /\ Len(acia.state.tx_data) <= 8)
    /\ [][ \A rx \in {acia.state.rx_data} : \A tx \in {acia.state.tx_data} :
            /\ last'.op = "receive" =>
                 acia'.state.rx_data =
                   IF Len(rx) < 8 THEN Append(rx, last'.value) ELSE rx
            /\ AciaAccess(last', "write", DATA_REG) =>
                 /\ last'.res = Ok(0)
                 /\ acia'.state.tx_data =
                      IF Len(tx) < 8 THEN Append(tx, last'.value) ELSE tx
                 /\ acia'.state.rx_data = rx
            /\ last'.op = "transmit" =>
                 /\ tx # <<>> /\ last'.value = Head(tx)
                 /\ acia'.state.tx_data = Tail(tx)
            /\ AciaAccess(last', "read", DATA_REG) =>
                 /\ last'.res = Ok(IF rx # <<>> THEN Head(rx) ELSE acia.data)
                 /\ acia'.state.rx_data = IF rx # <<>> THEN Tail(rx) ELSE rx
                 /\ acia'.state.tx_data = tx
            /\ AciaAccess(last', "write", STAT_REG) =>
                 (acia'.state.rx_data = <<>> /\ acia'.state.tx_data = <<>>)
            /\ acia'.data # acia.data =>
                 /\ AciaAccess(last', "read", DATA_REG)
                 /\ last'.res = Ok(acia'.data) ]_vars

----------------------------------------------------------------------------
(* Claims on the start and the end of a session (SpecNet).                 *)

(* no session but that of c is spawned or running *)
OnlySession(c) ==
    \A d \in Conns : net.conn[d].st \in {"spawned", "run"} => d = c

(* C39 (as stated): a session starts with the Telnet state Data, whatever  *)
(* the sessions before it have received, and the first byte it reads, when *)
(* it is not 0xFF, is pushed to the receive queue; stated for a session    *)
(* that is the only one and a queue with room.                             *)
C39_SessionStartsInData ==
    [][ \A c \in Conns :
          /\ (/\ net.conn[c].st = "spawned" /\ net'.conn[c].st = "run"
              /\ OnlySession(c))
               => acia'.state.ts = "Data"
          /\ (/\ net.conn[c].st = "run" /\ net'.conn[c].st = "run"
              /\ OnlySession(c)
              /\ net.conn[c].got = <<>> /\ net'.conn[c].got # <<>>
              /\ net'.conn[c].got[1] # 255
              /\ Len(acia.state.rx_data) < AciaQueueCapacity)
               => /\ Len(acia'.state.rx_data) > Len(acia.state.rx_data)
                  /\ SubSeq(acia'.state.rx_data, 1,
                            Len(acia.state.rx_data) + 1)
                       = Append(acia.state.rx_data, net'.conn[c].got[1]) ]_vars

(* C40 (as stated): connected is true only while a session runs: in every  *)
(* state in which no task of a session is alive, spawned or in its join!,  *)
(* connected is false, after a session whose handshake write failed too.   *)
C40_ConnectedOnlyInSession ==
    (\A c \in Conns : net.conn[c].st \notin {"spawned", "run"})
        => ~acia.state.connected

====
